---- MODULE Spec2Model ----
(***************************************************************************)
(* Model of the circt-synth-tracker analysis engine:                       *)
(*   - append-history     (analysis/append_history.py)                     *)
(*   - aggregate-results  (analysis/aggregate_results.py)                  *)
(*   - check-cec          (analysis/check_cec.py, compare_results.py)      *)
(*   - compare-results    (analysis/compare_results.py) and geo_mean       *)
(*                        (also analysis/timeseries_report.py)             *)
(* Each program has its own specification (SpecHistory, SpecAgg, SpecCec,  *)
(* SpecReport), and so has each function studied on its own (SpecClassify, *)
(* SpecDelta, SpecGeo), over the shared variable list; the variables of    *)
(* the other programs stay at their initial values.                        *)
(***************************************************************************)
EXTENDS Integers, Sequences, FiniteSets, TLC

VARIABLES
    \* ---- append-history ----
    historyExists,  \* the history file exists on disk
    history,        \* its content: the JSON array of entries (<<>> when absent)
    exitStatus,     \* return value of the last main() run (-1: none yet)
    lastRun,        \* record of the last append-history run (observation only)
    \* ---- aggregate-results ----
    aggDirExists,   \* --results-dir exists
    aggDir,         \* the JSON files below --results-dir, in directory order
    aggPc,          \* position of main(): "start", "loop", "write", "done"
    aggJsonFiles,   \* json_files: the files the glob selected
    aggIdx,         \* index of the next file of the for loop
    aggResults,     \* results: benchmark name -> merged metrics
    aggSummary,     \* the summary file written (<<>> while not written)
    aggExit,        \* return value of main() (-1 while running)
    \* ---- check-cec: run_cec ----
    cecAbcFound,    \* find_abc finds an executable
    cecToolNames,   \* tool_names = list(summaries.keys())
    cecSummaries,   \* summaries: tool -> benchmark -> what it records
    cecJobs,        \* the jobs argument and os.cpu_count()
    cecOracle,      \* what the ABC call of each benchmark does (fixed)
    cecPc,          \* position of run_cec
    cecToCheck,     \* to_check, as benchmark names
    cecWorkers,     \* workers
    cecFut,         \* per benchmark: state and result of its future
    cecResults,     \* cec_results: result tuples (<<>> = None)
    cecLists,       \* results: the five name lists
    cecStatusMap,   \* the map returned
    cecCalls,       \* per benchmark: number of _run_one_cec calls so far
    cecArrival,     \* names in the order as_completed yielded them (observation)
    cecPeak,        \* largest number of calls in flight so far (observation)
    cecMain,        \* check-cec main(): diagnostic printed, results written, exit
    \* ---- submit-results, then aggregate-results over what it wrote ----
    subIn,          \* arguments and stdin of submit-results, and the other files
    subFile,        \* the result file written (<<>> while not written)
    subSummary,     \* benchmarks of the summary aggregated afterwards (<<>> before)
    \* ---- two append-history runs, in both orders ----
    comIn,          \* starting series, the two entries, --max-days
    comA,           \* history file and runs done, first entry first
    comB,           \* history file and runs done, second entry first
    \* ---- _run_one_cec on one subprocess outcome ----
    clsProc,        \* what subprocess.run did: stdout, stderr, exit code
    clsResult,      \* the tuple returned (<<>> before the call)
    \* ---- percent delta of one (benchmark, metric) ----
    dltIn,          \* baseline value, compared value, whose cell it is
    dltOut,         \* what each report path makes of it (<<>> before)
    \* ---- geo_mean ----
    geoIn,          \* the list of values passed
    geoOut,         \* the value returned (<<>> before the call)
    \* ---- compare-results: the reports over all benchmarks ----
    repToolNames,   \* list(summaries.keys()): the tools in load order
    repSummaries,   \* summaries: tool -> benchmark -> record
    repOut          \* the report produced (<<>> before)

histVars == <<historyExists, history, exitStatus, lastRun>>

aggVars == <<aggDirExists, aggDir, aggPc, aggJsonFiles, aggIdx, aggResults,
             aggSummary, aggExit>>

cecInputs == <<cecAbcFound, cecToolNames, cecSummaries, cecJobs, cecOracle>>

cecVars == <<cecAbcFound, cecToolNames, cecSummaries, cecJobs, cecOracle,
             cecPc, cecToCheck, cecWorkers, cecFut, cecResults, cecLists,
             cecStatusMap, cecCalls, cecArrival, cecPeak, cecMain>>

subVars == <<subIn, subFile, subSummary>>

comVars == <<comIn, comA, comB>>

clsVars == <<clsProc, clsResult>>

dltVars == <<dltIn, dltOut>>

geoVars == <<geoIn, geoOut>>

repVars == <<repToolNames, repSummaries, repOut>>

vars == <<historyExists, history, exitStatus, lastRun,
          aggDirExists, aggDir, aggPc, aggJsonFiles, aggIdx, aggResults,
          aggSummary, aggExit,
          cecAbcFound, cecToolNames, cecSummaries, cecJobs, cecOracle,
          cecPc, cecToCheck, cecWorkers, cecFut, cecResults, cecLists,
          cecStatusMap, cecCalls, cecArrival, cecPeak, cecMain,
          subIn, subFile, subSummary, comIn, comA, comB,
          clsProc, clsResult, dltIn, dltOut, geoIn, geoOut,
          repToolNames, repSummaries, repOut>>

(***************************************************************************)
(* Bounds                                                                  *)
(***************************************************************************)
\* Dates are "YYYY-MM-DD" strings of fixed width, compared as strings by
\* list.sort; they are represented by 1..MaxDate in that order.
MaxDate == 3
\* Largest --max-days value tried.
MaxKeep == 2
\* Largest number of JSON files below the results directory.
MaxFiles == 3
\* Largest --jobs value and largest CPU count.
MaxJobs == 2
\* Largest number of lines the oracle prints on stdout, and on stderr.
MaxLines == 2
\* Longest list of values passed to geo_mean.
MaxValues == 3
\* Largest distance, in units in the last place, between the float that
\* exp(sum(log(v)) / n) returns and the exact geometric mean.
MaxUlps == 1

Range(s) == { s[i] : i \in DOMAIN s }

Dates == 1..MaxDate
NoDate == 0
Today == MaxDate
\* --max-days values tried (0, the default, means unlimited).
KeepLimits == 0..MaxKeep

(***************************************************************************)
(* append-history                                                          *)
(***************************************************************************)
NoKey == "<absent>"

\* A summary file as append-history sees it: missing on disk, or a JSON
\* object whose "version" and "benchmarks" keys may each be absent.
HistSummaryFiles ==
    { [exists |-> FALSE, version |-> NoKey, benchmarks |-> NoKey],
      [exists |-> TRUE,  version |-> NoKey, benchmarks |-> NoKey],
      [exists |-> TRUE,  version |-> "v1",  benchmarks |-> "B1"] }

\* dict.get(key, default)
Get(d, key, default) == IF d[key] = NoKey THEN default ELSE d[key]

\* lines 56-62: the entry built from the two summaries
BuildEntry(date, circt, yosys) ==
    [ date          |-> date,
      circt_version |-> Get(circt, "version", "unknown"),
      yosys_version |-> Get(yosys, "version", "unknown"),
      circt         |-> Get(circt, "benchmarks", "{}"),
      yosys         |-> Get(yosys, "benchmarks", "{}") ]

\* line 65: [e for e in history if e.get("date") != date]
RemoveDateKeepAll(h, date) == h
RemoveDate(h, date) == SelectSeq(h, LAMBDA e : e.date # date)

\* line 67: history.sort(key=date) -- a stable sort, here by insertion
RECURSIVE InsertByDate(_, _)
InsertByDate(s, e) ==
    IF s = <<>> THEN <<e>>
    ELSE IF Head(s).date <= e.date
         THEN <<Head(s)>> \o InsertByDate(Tail(s), e)
         ELSE <<e>> \o s

RECURSIVE SortByDateImpl(_)
SortByDateImpl(s) ==
    IF s = <<>> THEN <<>>
    ELSE InsertByDate(SortByDateImpl(SubSeq(s, 1, Len(s) - 1)), s[Len(s)])

SortByDateNone(s) == s
SortByDate(s) == SortByDateImpl(s)

\* lines 69-70: if max_days > 0: history = history[-max_days:]
RetainOldest(h, maxDays) ==
    IF maxDays > 0 /\ Len(h) > maxDays THEN SubSeq(h, 1, maxDays) ELSE h
Retain(h, maxDays) ==
    IF maxDays > 0 /\ Len(h) > maxDays
    THEN SubSeq(h, Len(h) - maxDays + 1, Len(h))
    ELSE h

\* lines 64-70
UpdateHistoryKeepOld(h, entry, maxDays) ==
    Retain(SortByDate(IF \E i \in DOMAIN h : h[i].date = entry.date
                      THEN h ELSE Append(h, entry)), maxDays)
UpdateHistory(h, entry, maxDays) ==
    Retain(SortByDate(Append(RemoveDate(h, entry.date), entry)), maxDays)

NoEntry == BuildEntry(NoDate, [version |-> NoKey, benchmarks |-> NoKey],
                              [version |-> NoKey, benchmarks |-> NoKey])

NoSummary == [exists |-> FALSE, version |-> NoKey, benchmarks |-> NoKey]

NoRun == [status |-> -1, circt |-> NoSummary, yosys |-> NoSummary,
          date |-> NoDate, entry |-> NoEntry, maxDays |-> 0,
          before |-> <<>>, beforeExists |-> FALSE, repeat |-> FALSE]

\* a run that writes the loaded series back before it looks at the summaries
AppendHistoryWriteFirst(circt, yosys, dateArg, now, maxDays) ==
    /\ history' = IF historyExists THEN history ELSE <<>>
    /\ historyExists' = TRUE
    /\ exitStatus' = IF circt.exists /\ yosys.exists THEN 0 ELSE 1
    /\ lastRun' = [NoRun EXCEPT !.status = IF circt.exists /\ yosys.exists
                                            THEN 0 ELSE 1,
                                !.circt = circt, !.yosys = yosys,
                                !.before = IF historyExists THEN history ELSE <<>>,
                                !.beforeExists = historyExists]

\* One run of append-history main(): circt/yosys are the two summary files,
\* dateArg the --date option (NoDate when not given), now the UTC day of the
\* clock, maxDays the --max-days option.
AppendHistory(circt, yosys, dateArg, now, maxDays) ==
    LET loaded == IF historyExists THEN history ELSE <<>>      \* lines 36-41
    IN  IF ~circt.exists \/ ~yosys.exists
        THEN \* lines 44-47: return 1 before anything is written
             /\ exitStatus' = 1
             /\ UNCHANGED <<historyExists, history>>
             /\ lastRun' = [NoRun EXCEPT !.status = 1, !.circt = circt,
                                         !.yosys = yosys, !.before = loaded,
                                         !.beforeExists = historyExists]
        ELSE LET date  == IF dateArg # NoDate THEN dateArg ELSE now   \* line 54
                 entry == BuildEntry(date, circt, yosys)
             IN  /\ history' = UpdateHistory(loaded, entry, maxDays)
                 /\ historyExists' = TRUE                       \* lines 72-73
                 /\ exitStatus' = 0
                 /\ lastRun' = [status |-> 0, circt |-> circt, yosys |-> yosys,
                                date |-> date, entry |-> entry,
                                maxDays |-> maxDays, before |-> loaded,
                                beforeExists |-> historyExists,
                                repeat |-> /\ lastRun.status = 0
                                           /\ lastRun.circt = circt
                                           /\ lastRun.yosys = yosys
                                           /\ lastRun.date = date
                                           /\ lastRun.maxDays = maxDays]

HistInit ==
    /\ historyExists = FALSE
    /\ history = <<>>
    /\ exitStatus = -1
    /\ lastRun = NoRun

\* One disjunct per way main() can run: a summary file is missing; --date is
\* given; --date is not given and the clock is read (line 54).  The clock
\* shows the latest day of the model, Today.
HistOnly == UNCHANGED <<aggVars, cecVars, clsVars, dltVars, geoVars, repVars, subVars, comVars>>

HistNext ==
    \/ \E circt \in HistSummaryFiles, yosys \in HistSummaryFiles :
          /\ ~circt.exists \/ ~yosys.exists
          /\ AppendHistory(circt, yosys, NoDate, Today, 0)
          /\ HistOnly
    \/ \E circt \in HistSummaryFiles, yosys \in HistSummaryFiles,
          dateArg \in Dates, maxDays \in KeepLimits :
          /\ circt.exists /\ yosys.exists
          /\ AppendHistory(circt, yosys, dateArg, Today, maxDays)
          /\ HistOnly
    \/ \E circt \in HistSummaryFiles, yosys \in HistSummaryFiles,
          maxDays \in KeepLimits :
          /\ circt.exists /\ yosys.exists
          /\ AppendHistory(circt, yosys, NoDate, Today, maxDays)
          /\ HistOnly

(***************************************************************************)
(* aggregate-results                                                       *)
(***************************************************************************)
\* The files found below the results directory.  where: "tool" = matches
\* **/results/<tool>/*.json for the --tool being aggregated, "other" = any
\* other *.json (another tool's results directory, or elsewhere).
\* json: "bad" = json.load raises, "list" = valid JSON that is no object
\* (data.get raises), "object" = a JSON object with the keys below.
BadFile(where, stem) ==
    [where |-> where, stem |-> stem, json |-> "bad", benchmark |-> NoKey,
     metrics |-> NoKey, category |-> NoKey]

ListFile(where, stem) ==
    [where |-> where, stem |-> stem, json |-> "list", benchmark |-> NoKey,
     metrics |-> NoKey, category |-> NoKey]

ObjectFile(where, stem, benchmark, metrics, category) ==
    [where |-> where, stem |-> stem, json |-> "object", benchmark |-> benchmark,
     metrics |-> metrics, category |-> category]

AggFiles ==
    { BadFile("tool", "x"),
      ListFile("tool", "y"),
      ObjectFile("tool", "a_8", "a_8", "m1", "comb"),
      ObjectFile("tool", "a_8", "a_8", "m2", NoKey),
      ObjectFile("tool", "b_8", NoKey, "m1", NoKey),
      ObjectFile("tool", "c_8", "b_8", NoKey, "comb"),
      ObjectFile("other", "a_8", "a_8", "m3", "comb"),
      BadFile("other", "z") }

RECURSIVE SeqsUpTo(_, _)
SeqsUpTo(S, n) ==
    IF n = 0 THEN { <<>> }
    ELSE LET shorter == SeqsUpTo(S, n - 1)
         IN  shorter \cup { Append(q, x) : q \in shorter, x \in S }

\* lines 54-62: the glob for <tool>'s result files, and every *.json of the
\* directory when that finds nothing
Glob(dir) ==
    LET ofTool == SelectSeq(dir, LAMBDA f : f.where = "tool")
    IN  IF ofTool # <<>> THEN ofTool ELSE dir

\* JSON texts of values that are no mapping
NonMappings == {"[]", "null"}

\* json.load and the two data.get of lines 70-72 succeed, and so does the
\* assignment metrics["category"] = ... of line 75, which needs a mapping
Parses(f) ==
    /\ f.json = "object"
    /\ f.category # NoKey => f.metrics \notin NonMappings

\* line 71: data.get("benchmark", json_file.stem)
BenchmarkName(f) == IF f.benchmark = NoKey THEN f.stem ELSE f.benchmark

\* lines 72-75: the metrics object, with the record's category copied in
MergedMetrics(f) ==
    [metrics  |-> IF f.metrics = NoKey THEN "{}" ELSE f.metrics,
     category |-> f.category]

\* a merge that keeps the entry a name already has
PutIfNew(r, k, v) == [x \in (DOMAIN r) \cup {k} |-> IF x \in DOMAIN r THEN r[x] ELSE v]

\* results[benchmark_name] = metrics
Put(r, k, v) == [x \in (DOMAIN r) \cup {k} |-> IF x = k THEN v ELSE r[x]]

\* lines 68-84: one iteration of the for loop; an exception skips the file
ProcessOneKeepBad(r, f) == Put(r, BenchmarkName(f), MergedMetrics(f))
ProcessOne(r, f) ==
    IF Parses(f) THEN Put(r, BenchmarkName(f), MergedMetrics(f)) ELSE r

NoResults == [x \in {} |-> NoKey]

\* lines 34-65
AggStart ==
    /\ aggPc = "start"
    /\ IF ~aggDirExists
       THEN /\ aggPc' = "done"
            /\ aggExit' = 1
            /\ UNCHANGED aggJsonFiles
       ELSE /\ aggPc' = "loop"
            /\ aggJsonFiles' = Glob(aggDir)
            /\ UNCHANGED aggExit
    /\ UNCHANGED <<aggDirExists, aggDir, aggIdx, aggResults, aggSummary>>

\* lines 67-84
AggProcessFile ==
    /\ aggPc = "loop"
    /\ aggIdx <= Len(aggJsonFiles)
    /\ aggResults' = ProcessOne(aggResults, aggJsonFiles[aggIdx])
    /\ aggIdx' = aggIdx + 1
    /\ UNCHANGED <<aggDirExists, aggDir, aggPc, aggJsonFiles, aggSummary, aggExit>>

\* lines 86-101
AggWriteSummary ==
    /\ aggPc = "loop"
    /\ aggIdx > Len(aggJsonFiles)
    /\ aggSummary' = << [tool |-> "tool",
                         total_benchmarks |-> Cardinality(DOMAIN aggResults),
                         benchmarks |-> aggResults] >>
    /\ aggExit' = 0
    /\ aggPc' = "done"
    /\ UNCHANGED <<aggDirExists, aggDir, aggJsonFiles, aggIdx, aggResults>>

AggIdle ==
    /\ aggPc = "start"
    /\ aggJsonFiles = <<>>
    /\ aggIdx = 1
    /\ aggResults = NoResults
    /\ aggSummary = <<>>
    /\ aggExit = -1

AggInit ==
    /\ aggDirExists \in BOOLEAN
    /\ aggDir \in SeqsUpTo(AggFiles, MaxFiles)
    /\ ~aggDirExists => aggDir = <<>>
    /\ AggIdle

AggOnly == UNCHANGED <<histVars, cecVars, clsVars, dltVars, geoVars, repVars, subVars, comVars>>

AggNext ==
    \/ AggStart /\ AggOnly
    \/ AggProcessFile /\ AggOnly
    \/ AggWriteSummary /\ AggOnly

(***************************************************************************)
(* check-cec: run_cec and _run_one_cec                                     *)
(***************************************************************************)
Bench == {"x", "y", "z"}
\* sorted() order of the benchmark names
BenchOrder == <<"x", "y", "z">>

ToolOrder == <<"circt-synth", "yosys", "third">>
Tools == Range(ToolOrder)

\* What a summary records for a benchmark: "absent" = no such benchmark,
\* "nofile" = no (or an empty) "filename", "gone" = a filename that does not
\* exist on disk, "ok" = a filename that exists.
EntryStates == {"absent", "nofile", "gone", "ok"}

\* The lines the oracle can print.  A line is a whole line of the captured
\* text; what matters of it is which of the three substrings searched by
\* lines 29-32 it contains.
SuccessLine       == "Networks are equivalent.  Time = 0.01 sec"
FailLine          == "Networks are NOT EQUIVALENT.  Time = 0.01 sec"
FailUpperOnlyLine == "Networks are NOT comparable"
FailLowerOnlyLine == "Outputs are not equivalent"
OtherLine         == "Error: cannot open input file"
BlankLine         == ""

OutputLines == { SuccessLine, FailLine, FailUpperOnlyLine, FailLowerOnlyLine,
                 OtherLine, BlankLine }

ExitCodes == {0, 1}

\* line 29: the lines with "Networks are equivalent" in them (case-sensitive)
NetworksAreEquivalentLines == {SuccessLine}
\* line 31: the lines with "Networks are NOT" in them
NetworksAreNotLines == {FailLine, FailUpperOnlyLine}
\* line 32: the lines with "not equivalent" in their lower-cased text
NotEquivalentLowerLines == {FailLine, FailLowerOnlyLine}

\* marker in output: no marker holds a newline, so it is in one line
Contains(output, markerLines) == \E i \in DOMAIN output : output[i] \in markerLines

\* output.strip().splitlines(): the blank lines at both ends are gone
RECURSIVE StripLeft(_)
StripLeft(lines) ==
    IF lines # <<>> /\ Head(lines) = BlankLine THEN StripLeft(Tail(lines)) ELSE lines

RECURSIVE StripRight(_)
StripRight(lines) ==
    IF lines # <<>> /\ lines[Len(lines)] = BlankLine
    THEN StripRight(SubSeq(lines, 1, Len(lines) - 1)) ELSE lines

StripSplitlines(output) == StripRight(StripLeft(output))

\* lst[-n:]
LastOf(lst, n) ==
    IF Len(lst) <= n THEN lst ELSE SubSeq(lst, Len(lst) - n + 1, Len(lst))

\* What the subprocess of one call does: it completes with text on stdout
\* and stderr and an exit code; or it exceeds the 30 s timeout; or
\* subprocess.run raises.  Completed(eq, neq, exit) is the call of an oracle
\* that means to report success (eq), failure (neq) or neither, and prints
\* the line that says so.
Completed(eq, neq, exit) ==
    [kind |-> "completed", eq |-> eq, neq |-> neq, exit |-> exit,
     stdout |-> IF eq THEN <<SuccessLine>>
                ELSE IF neq THEN <<FailLine>> ELSE <<>>,
     stderr |-> IF ~eq /\ ~neq THEN <<OtherLine>> ELSE <<>>]
TimedOut == [kind |-> "timeout", eq |-> FALSE, neq |-> FALSE, exit |-> 0,
             stdout |-> <<>>, stderr |-> <<>>]
Raised   == [kind |-> "raise",   eq |-> FALSE, neq |-> FALSE, exit |-> 0,
             stdout |-> <<>>, stderr |-> <<>>]

OracleBehaviours ==
    { Completed(TRUE, FALSE, 0), Completed(FALSE, TRUE, 0),
      Completed(FALSE, FALSE, 1), TimedOut, Raised }

\* _run_one_cec, lines 22-42: (benchmark_name, status, detail).  The detail
\* is a list of lines; <<>> is None.
RunOneCecTimeoutAsError(name, o) ==
    IF o.kind = "completed" /\ o.eq THEN [name |-> name, status |-> "equivalent", detail |-> <<>>]
    ELSE IF o.kind = "completed" /\ o.neq THEN [name |-> name, status |-> "not_equivalent", detail |-> <<>>]
    ELSE [name |-> name, status |-> "error", detail |-> <<"error">>]
RunOneCecByExitCode(name, o) ==
    IF o.kind = "timeout"
    THEN [name |-> name, status |-> "timeout", detail |-> <<"timeout">>]
    ELSE IF o.kind = "raise"
    THEN [name |-> name, status |-> "error", detail |-> <<"exception">>]
    ELSE LET output == o.stdout \o o.stderr
         IN  IF o.exit = 0 /\ Contains(output, NetworksAreEquivalentLines)
             THEN [name |-> name, status |-> "equivalent", detail |-> <<>>]
             ELSE IF o.exit # 0 /\ (\/ Contains(output, NetworksAreNotLines)
                                    \/ Contains(output, NotEquivalentLowerLines))
             THEN [name |-> name, status |-> "not_equivalent", detail |-> <<>>]
             ELSE [name |-> name, status |-> "error",
                   detail |-> <<"unexpected output:">>
                                 \o LastOf(StripSplitlines(output), 3)]
RunOneCec(name, o) ==
    IF o.kind = "timeout"
    THEN [name |-> name, status |-> "timeout", detail |-> <<"timeout">>]
    ELSE IF o.kind = "raise"
    THEN [name |-> name, status |-> "error", detail |-> <<"exception">>]
    ELSE LET output == o.stdout \o o.stderr
         IN  IF Contains(output, NetworksAreEquivalentLines)
             THEN [name |-> name, status |-> "equivalent", detail |-> <<>>]
             ELSE IF \/ Contains(output, NetworksAreNotLines)
                     \/ Contains(output, NotEquivalentLowerLines)
             THEN [name |-> name, status |-> "not_equivalent", detail |-> <<>>]
             ELSE [name |-> name, status |-> "error",
                   detail |-> <<"unexpected output:">>
                                 \o LastOf(StripSplitlines(output), 3)]

\* One call of _run_one_cec on the outcome clsProc.
ClsProcs ==
    { [kind |-> "completed", stdout |-> out, stderr |-> err, exit |-> e] :
        out \in SeqsUpTo(OutputLines, MaxLines),
        err \in SeqsUpTo(OutputLines, MaxLines),
        e \in ExitCodes }
    \cup { [kind |-> k, stdout |-> <<>>, stderr |-> <<>>, exit |-> 0] :
             k \in {"timeout", "raise"} }

ClsInit ==
    /\ clsProc \in ClsProcs
    /\ clsResult = <<>>

ClsInputsIdle ==
    /\ clsProc = [kind |-> "raise", stdout |-> <<>>, stderr |-> <<>>, exit |-> 0]
    /\ clsResult = <<>>

ClassifyCall ==
    /\ clsResult = <<>>
    /\ clsResult' = <<RunOneCec("x", clsProc)>>
    /\ UNCHANGED clsProc

\* sorted(S) for a set of benchmark names
Sorted(S) == SelectSeq(BenchOrder, LAMBDA b : b \in S)

\* lines 34-36: all_benchmarks, over every summary passed in
AllBenchmarksShared(names, sums) ==
    { b \in Bench : \A t \in Range(names) : sums[t][b] # "absent" }
AllBenchmarks(names, sums) ==
    { b \in Bench : \E t \in Range(names) : sums[t][b] # "absent" }

\* lines 44-49: the tools, among the first two, with a filename for b
AigFiles(names, sums, b) ==
    { t \in Range(SubSeq(names, 1, 2)) : sums[t][b] \in {"gone", "ok"} }

\* lines 51-66: b goes to to_check (otherwise to results["missing"])
SurvivesNoExistsCheck(names, sums, b) ==
    Cardinality(AigFiles(names, sums, b)) = 2
Survives(names, sums, b) ==
    /\ Cardinality(AigFiles(names, sums, b)) = 2
    /\ \A t \in Range(SubSeq(names, 1, 2)) : sums[t][b] = "ok"

\* lines 42-66
ToCheck(names, sums) ==
    SelectSeq(Sorted(AllBenchmarks(names, sums)),
              LAMBDA b : Survives(names, sums, b))

MissingList(names, sums) ==
    SelectSeq(Sorted(AllBenchmarks(names, sums)),
              LAMBDA b : ~Survives(names, sums, b))

\* lines 68-69
WorkersUnclamped(jobs) ==
    IF jobs.given THEN jobs.jobs ELSE IF jobs.cpu = 0 THEN 1 ELSE jobs.cpu
Workers(jobs) ==
    LET w == IF jobs.given THEN jobs.jobs
             ELSE IF jobs.cpu = 0 THEN 1 ELSE jobs.cpu
    IN  IF w < 1 THEN 1 ELSE w

\* line 76: name_to_idx
NameToIdxFirst(toCheck, name) == 1
NameToIdx(toCheck, name) ==
    CHOOSE i \in DOMAIN toCheck : toCheck[i] = name

NoLists == [equivalent |-> <<>>, not_equivalent |-> <<>>, missing |-> <<>>,
            error |-> <<>>, timeout |-> <<>>]

\* lines 89-103: one result tuple goes to the list of its status
AddResultVerdictsOnly(lists, r) ==
    IF r.status = "equivalent"
    THEN [lists EXCEPT !.equivalent = Append(@, r.name)]
    ELSE IF r.status = "not_equivalent"
    THEN [lists EXCEPT !.not_equivalent = Append(@, r.name)]
    ELSE lists
\* a tally that files every result without a verdict under `missing`
AddResultFailureAsMissing(lists, r) ==
    IF r.status = "equivalent"
    THEN [lists EXCEPT !.equivalent = Append(@, r.name)]
    ELSE IF r.status = "not_equivalent"
    THEN [lists EXCEPT !.not_equivalent = Append(@, r.name)]
    ELSE [lists EXCEPT !.missing = Append(@, r.name)]
AddResult(lists, r) ==
    IF r.status = "equivalent"
    THEN [lists EXCEPT !.equivalent = Append(@, r.name)]
    ELSE IF r.status = "not_equivalent"
    THEN [lists EXCEPT !.not_equivalent = Append(@, r.name)]
    ELSE IF r.status = "timeout"
    THEN [lists EXCEPT !.timeout = Append(@, r.name)]
    ELSE [lists EXCEPT !.error = Append(@, r.name)]

RECURSIVE Tally(_, _)
Tally(lists, rs) ==
    IF rs = <<>> THEN lists ELSE Tally(AddResult(lists, Head(rs)[1]), Tail(rs))

\* lines 119-122: status_map, filled category by category
CategoryOrder == <<"equivalent", "not_equivalent", "missing", "error", "timeout">>

RECURSIVE PutAll(_, _, _)
PutAll(m, names, category) ==
    IF names = <<>> THEN m
    ELSE PutAll(Put(m, Head(names), category), Tail(names), category)

RECURSIVE StatusMapFrom(_, _, _)
StatusMapFrom(m, lists, i) ==
    IF i > Len(CategoryOrder) THEN m
    ELSE StatusMapFrom(PutAll(m, lists[CategoryOrder[i]], CategoryOrder[i]),
                       lists, i + 1)

StatusMap(lists) == StatusMapFrom(NoResults, lists, 1)

NoFuture == [state |-> "none", result |-> <<>>]

\* main() has not returned: nothing on stderr, no results written
NotExited == [diagnostic |-> FALSE, written |-> <<>>, exit |-> -1]

\* lines 23-69: find_abc, the tool count, the scan of the benchmarks
CecStart ==
    /\ cecPc = "start"
    /\ IF ~cecAbcFound \/ Len(cecToolNames) < 2
       THEN \* lines 25-27 and 30-32: return {}
            /\ cecPc' = "returned"
            /\ UNCHANGED <<cecToCheck, cecWorkers, cecLists>>
       ELSE /\ cecToCheck' = ToCheck(cecToolNames, cecSummaries)
            /\ cecLists' = [NoLists EXCEPT
                              !.missing = MissingList(cecToolNames, cecSummaries)]
            /\ cecWorkers' = Workers(cecJobs)
            /\ cecPc' = IF Workers(cecJobs) = 1 THEN "sequential" ELSE "submit"
    /\ cecMain' = [cecMain EXCEPT !.diagnostic = ~cecAbcFound \/ Len(cecToolNames) < 2]
    /\ UNCHANGED <<cecInputs, cecFut, cecResults, cecStatusMap, cecCalls, cecArrival, cecPeak>>

\* line 72: the next call of the list comprehension
CecCallNext ==
    /\ cecPc = "sequential"
    /\ Len(cecResults) < Len(cecToCheck)
    /\ LET b == cecToCheck[Len(cecResults) + 1]
       IN  /\ cecCalls' = [cecCalls EXCEPT ![b] = @ + 1]
           /\ cecResults' = Append(cecResults, <<RunOneCec(b, cecOracle[b])>>)
    /\ UNCHANGED <<cecInputs, cecMain, cecPc, cecToCheck, cecWorkers, cecFut, cecLists,
                   cecStatusMap, cecArrival, cecPeak>>

\* line 72 completed
CecCallsDone ==
    /\ cecPc = "sequential"
    /\ Len(cecResults) = Len(cecToCheck)
    /\ cecPc' = "tally"
    /\ UNCHANGED <<cecInputs, cecMain, cecToCheck, cecWorkers, cecFut, cecResults,
                   cecLists, cecStatusMap, cecCalls, cecArrival, cecPeak>>

\* lines 75-81: cec_results = [None] * n, every pair submitted to the pool
CecSubmitAll ==
    /\ cecPc = "submit"
    /\ cecResults' = [i \in DOMAIN cecToCheck |-> <<>>]
    /\ cecFut' = [b \in Bench |->
                    IF b \in Range(cecToCheck)
                    THEN [state |-> "queued", result |-> <<>>] ELSE NoFuture]
    /\ cecPc' = "pool"
    /\ UNCHANGED <<cecInputs, cecMain, cecToCheck, cecWorkers, cecLists, cecStatusMap,
                   cecCalls, cecArrival, cecPeak>>

Running == { b \in Bench : cecFut[b].state = "running" }

\* the first queued future, in submission order
NextQueued(b) ==
    /\ cecFut[b].state = "queued"
    /\ \A i \in DOMAIN cecToCheck :
          i < NameToIdx(cecToCheck, b) => cecFut[cecToCheck[i]].state # "queued"

\* a free pool thread takes the next queued call and starts the subprocess
WorkerStart(b) ==
    /\ cecPc = "pool"
    /\ NextQueued(b)
    /\ Cardinality(Running) < cecWorkers
    /\ cecFut' = [cecFut EXCEPT ![b].state = "running"]
    /\ cecCalls' = [cecCalls EXCEPT ![b] = @ + 1]
    /\ cecPeak' = IF Cardinality(Running) + 1 > cecPeak
                  THEN Cardinality(Running) + 1 ELSE cecPeak
    /\ UNCHANGED <<cecInputs, cecMain, cecPc, cecToCheck, cecWorkers, cecResults,
                   cecLists, cecStatusMap, cecArrival>>

\* a pool that puts a call that timed out back into the queue
WorkerFinishRetry(b) ==
    /\ cecPc = "pool"
    /\ cecFut[b].state = "running"
    /\ cecFut' = IF cecOracle[b].kind = "timeout" /\ cecCalls[b] < 2
                 THEN [cecFut EXCEPT ![b].state = "queued"]
                 ELSE [cecFut EXCEPT ![b] = [state |-> "finished",
                                             result |-> <<RunOneCec(b, cecOracle[b])>>]]
    /\ UNCHANGED <<cecInputs, cecMain, cecPc, cecToCheck, cecWorkers, cecResults,
                   cecLists, cecStatusMap, cecCalls, cecArrival, cecPeak>>

\* _run_one_cec returns in its thread: the future is done
WorkerFinish(b) ==
    /\ cecPc = "pool"
    /\ cecFut[b].state = "running"
    /\ cecFut' = [cecFut EXCEPT ![b] = [state |-> "finished",
                                        result |-> <<RunOneCec(b, cecOracle[b])>>]]
    /\ UNCHANGED <<cecInputs, cecMain, cecPc, cecToCheck, cecWorkers, cecResults,
                   cecLists, cecStatusMap, cecCalls, cecArrival, cecPeak>>

\* lines 82-87: as_completed yields a finished future, in any order
CollectFuture(b) ==
    /\ cecPc = "pool"
    /\ cecFut[b].state = "finished"
    /\ LET result == cecFut[b].result
           idx    == NameToIdx(cecToCheck, result[1].name)
       IN  cecResults' = [cecResults EXCEPT ![idx] = result]
    /\ cecFut' = [cecFut EXCEPT ![b].state = "collected"]
    /\ cecArrival' = Append(cecArrival, b)
    /\ UNCHANGED <<cecInputs, cecMain, cecPc, cecToCheck, cecWorkers, cecLists,
                   cecStatusMap, cecCalls, cecPeak>>

\* as_completed is exhausted and the executor shut down
PoolDone ==
    /\ cecPc = "pool"
    /\ \A b \in Range(cecToCheck) : cecFut[b].state = "collected"
    /\ cecPc' = "tally"
    /\ UNCHANGED <<cecInputs, cecMain, cecToCheck, cecWorkers, cecFut, cecResults,
                   cecLists, cecStatusMap, cecCalls, cecArrival, cecPeak>>

\* lines 89-124; unpacking a slot that is still None raises TypeError
CecTally ==
    /\ cecPc = "tally"
    /\ IF \E i \in DOMAIN cecResults : cecResults[i] = <<>>
       THEN /\ cecPc' = "raised"
            /\ UNCHANGED <<cecLists, cecStatusMap>>
       ELSE /\ cecLists' = Tally(cecLists, cecResults)
            /\ cecStatusMap' = StatusMap(Tally(cecLists, cecResults))
            /\ cecPc' = "returned"
    /\ UNCHANGED <<cecInputs, cecMain, cecToCheck, cecWorkers, cecFut, cecResults,
                   cecCalls, cecArrival, cecPeak>>

\* lines 158-167 of main: whatever run_cec returned is written as the
\* results and main returns 0; an exception of run_cec ends the process
\* with a traceback and status 1
CecMain ==
    /\ cecPc \in {"returned", "raised"}
    /\ cecMain.exit = -1
    /\ cecMain' = IF cecPc = "raised"
                  THEN [cecMain EXCEPT !.diagnostic = TRUE, !.exit = 1]
                  ELSE [cecMain EXCEPT !.written = <<cecStatusMap>>, !.exit = 0]
    /\ UNCHANGED <<cecInputs, cecPc, cecToCheck, cecWorkers, cecFut, cecResults,
                   cecLists, cecStatusMap, cecCalls, cecArrival, cecPeak>>

CecIdle ==
    /\ cecPc = "start"
    /\ cecMain = NotExited
    /\ cecToCheck = <<>>
    /\ cecWorkers = 0
    /\ cecFut = [b \in Bench |-> NoFuture]
    /\ cecResults = <<>>
    /\ cecLists = NoLists
    /\ cecStatusMap = NoResults
    /\ cecCalls = [b \in Bench |-> 0]
    /\ cecArrival = <<>>
    /\ cecPeak = 0

\* The summaries tried: the first two tools record anything for x and y;
\* z, and the third tool, only "absent" or "ok"; the third tool has no x, y.
SummaryChoices ==
    { s \in [Tools -> [Bench -> EntryStates]] :
        /\ \A t \in Tools : s[t]["z"] \in {"absent", "ok"}
        /\ \A b \in {"x", "y"} : s[ToolOrder[3]][b] = "absent" }

JobsChoices ==
    { [given |-> TRUE, jobs |-> j, cpu |-> 1] : j \in 0..MaxJobs }
        \cup { [given |-> FALSE, jobs |-> 0, cpu |-> c] : c \in {0, MaxJobs} }

NoSummaries == [t \in Tools |-> [b \in Bench |-> "absent"]]

\* The oracle is deterministic: its behaviour on each pair is fixed.  Pairs
\* that are not dispatched (an artifact is missing) make ABC print an error.
OracleChoices(names, sums) ==
    LET S == { b \in Bench : Len(names) >= 2 /\ Survives(names, sums, b) }
    IN  { [b \in Bench |-> IF b \in S THEN f[b] ELSE Completed(FALSE, FALSE, 1)] :
            f \in [S -> OracleBehaviours] }

CecInit ==
    /\ cecAbcFound \in BOOLEAN
    /\ cecToolNames \in { SubSeq(ToolOrder, 1, n) : n \in 1..3 }
    /\ cecSummaries \in SummaryChoices
    /\ \A i \in DOMAIN ToolOrder :
          i > Len(cecToolNames) => cecSummaries[ToolOrder[i]] = NoSummaries[ToolOrder[i]]
    /\ cecJobs \in JobsChoices
    /\ (~cecAbcFound \/ Len(cecToolNames) < 2) =>
          cecJobs = [given |-> FALSE, jobs |-> 0, cpu |-> 0]
    /\ cecOracle \in OracleChoices(cecToolNames, cecSummaries)
    /\ CecIdle

CecInputsIdle ==
    /\ cecAbcFound = FALSE
    /\ cecToolNames = <<>>
    /\ cecSummaries = NoSummaries
    /\ cecJobs = [given |-> FALSE, jobs |-> 0, cpu |-> 0]
    /\ cecOracle = [b \in Bench |-> Completed(FALSE, FALSE, 1)]
    /\ CecIdle

CecOnly == UNCHANGED <<histVars, aggVars, clsVars, dltVars, geoVars, repVars, subVars, comVars>>

CecNext ==
    \/ CecStart /\ CecOnly
    \/ CecCallNext /\ CecOnly
    \/ CecCallsDone /\ CecOnly
    \/ CecSubmitAll /\ CecOnly
    \/ \E b \in Bench : WorkerStart(b) /\ CecOnly
    \/ \E b \in Bench : WorkerFinish(b) /\ CecOnly
    \/ \E b \in Bench : CollectFuture(b) /\ CecOnly
    \/ PoolDone /\ CecOnly
    \/ CecTally /\ CecOnly
    \/ CecMain /\ CecOnly

(***************************************************************************)
(* compare-results: the percent delta of one (benchmark, metric)           *)
(***************************************************************************)
\* A metric as dict.get(key) returns it: None when the record has no such
\* key, a number otherwise.
None == [none |-> TRUE, v |-> 0]
Num(n) == [none |-> FALSE, v |-> n]

\* The metric values tried: missing, negative, zero and positive ones.
MetricValues == { None } \cup { Num(n) : n \in {-100, 0, 3, 4, 80, 100, 120} }

\* bool(x) of a metric: None and 0 are falsy
Truthy(x) == ~x.none /\ x.v # 0

\* n / d rounded to the nearest integer, ties to the even one, as round()
\* and the 'f' formats do.  The binary rounding of the float quotient itself
\* is below the resolution of the model.
RoundHalfEven(n, d) ==
    LET nn == IF d < 0 THEN -n ELSE n
        dd == IF d < 0 THEN -d ELSE d
        q  == nn \div dd
        r  == nn % dd
    IN  IF 2 * r < dd THEN q
        ELSE IF 2 * r > dd THEN q + 1
        ELSE IF q % 2 = 0 THEN q ELSE q + 1

\* (value - baseline) / baseline * 100, in units of 1/scale percent
PercentOf(value, baseline, scale) ==
    RoundHalfEven((value - baseline) * 100 * scale, baseline)

\* What a report path makes of one cell: no percentage (null), or the
\* percentage in units of 1/scale percent; divisor is <<>> when no division
\* was evaluated and <<d>> when the code divided by d.
NoPercent == [null |-> TRUE, pct |-> 0, scale |-> 1, divisor |-> <<>>]
Percent(p, scale, divisor) ==
    [null |-> FALSE, pct |-> p, scale |-> scale, divisor |-> divisor]

\* _outlier_table_section, lines 259-261:
\*   round((cv - bv) / bv * 100, 2) if bv and cv and bv > 0 else None
OutlierDelta(bv, cv) ==
    IF Truthy(bv) /\ Truthy(cv) /\ bv.v > 0
    THEN Percent(PercentOf(cv.v, bv.v, 100), 100, <<bv.v>>)
    ELSE NoPercent

\* _bar_chart_section, lines 412-419
BarChartDelta(bv, cv) ==
    IF Truthy(bv) /\ Truthy(cv) /\ bv.v > 0
    THEN Percent(PercentOf(cv.v, bv.v, 100), 100, <<bv.v>>)
    ELSE NoPercent

\* generate_html_report, format_metric, lines 953-1003.  value is
\* result.get(key, "N/A") and baseline is baseline_result.get(key, 0); the
\* percentage is shown with one decimal whenever diff is not zero.
FormatMetric(value, baseline, isBaselineTool) ==
    LET base == IF baseline.none THEN 0 ELSE baseline.v
        diff == value.v - base
    IN  IF value.none \/ base = 0 \/ isBaselineTool THEN NoPercent
        ELSE IF diff = 0 THEN NoPercent
        ELSE IF base > 0
        THEN Percent(PercentOf(value.v, base, 10), 10, <<base>>)
        ELSE Percent(0, 10, <<>>)

\* display_markdown and generate_markdown_report, fmt, lines 1523-1534 and
\* 1353-1364.  value is result.get(key).
Fmt(value, baseline, isBaselineTool) ==
    LET base == IF baseline.none THEN 0 ELSE baseline.v
        diff == value.v - base
    IN  IF value.none THEN NoPercent
        ELSE IF base = 0 \/ isBaselineTool THEN NoPercent
        ELSE IF diff = 0 THEN NoPercent
        ELSE IF base > 0
        THEN Percent(PercentOf(value.v, base, 10), 10, <<base>>)
        ELSE Percent(0, 10, <<>>)

\* display_differences, lines 1478-1492: one line per tool after the first
DisplayDifference(toolValue, baseValue) ==
    IF baseValue.none \/ baseValue.v = 0 THEN NoPercent
    ELSE IF toolValue.none THEN NoPercent
    ELSE Percent(PercentOf(toolValue.v, baseValue.v, 100), 100, <<baseValue.v>>)

DltInputs ==
    [baseline : MetricValues, value : MetricValues, isBaselineTool : BOOLEAN]

DltInit ==
    /\ dltIn \in DltInputs
    /\ dltOut = <<>>

DltCell(path, result) ==
    /\ dltOut = <<>>
    /\ dltOut' = <<[path |-> path, result |-> result]>>
    /\ UNCHANGED dltIn

\* the outlier table and the bar chart compare the second tool to the first
OutlierTableCell ==
    /\ ~dltIn.isBaselineTool
    /\ DltCell("outlier", OutlierDelta(dltIn.baseline, dltIn.value))

BarChartValue ==
    /\ ~dltIn.isBaselineTool
    /\ DltCell("bar", BarChartDelta(dltIn.baseline, dltIn.value))

HtmlTableCell ==
    DltCell("html", FormatMetric(dltIn.value, dltIn.baseline, dltIn.isBaselineTool))

MarkdownCell ==
    DltCell("markdown", Fmt(dltIn.value, dltIn.baseline, dltIn.isBaselineTool))

\* tools[1:] only
ConsoleDifference ==
    /\ ~dltIn.isBaselineTool
    /\ DltCell("console", DisplayDifference(dltIn.value, dltIn.baseline))

DltOnly == UNCHANGED <<histVars, aggVars, cecVars, clsVars, geoVars, repVars, subVars, comVars>>

DltNext ==
    \/ OutlierTableCell /\ DltOnly
    \/ BarChartValue /\ DltOnly
    \/ HtmlTableCell /\ DltOnly
    \/ MarkdownCell /\ DltOnly
    \/ ConsoleDifference /\ DltOnly

(***************************************************************************)
(* geo_mean (compare_results.py and timeseries_report.py)                  *)
(***************************************************************************)
RECURSIVE Product(_)
Product(values) ==
    IF values = <<>> THEN 1 ELSE Head(values).v * Product(Tail(values))

\* The float exp(sum(log(v) for v in valid) / len(valid)): the real number
\* product^(1/count), off by `ulps` units in the last place.  math.log and
\* math.exp are the C library's, which does not round them correctly, so
\* the distance is whatever the build produces within MaxUlps.
Mean(valid, ulps) ==
    [kind |-> "mean", product |-> Product(valid), count |-> Len(valid),
     ulps |-> ulps]

Sentinel(kind) == [kind |-> kind, product |-> 0, count |-> 0, ulps |-> 0]

RoundingErrors == (0 - MaxUlps)..MaxUlps

\* compare_results.py lines 1104-1108: valid = [v for v in values if v and
\* v > 0]; 0 when there is none
GeoMeanKeepAll(values, ulps) ==
    IF values = <<>> THEN Sentinel("zero") ELSE Mean(values, ulps)
GeoMean(values, ulps) ==
    LET valid_values == SelectSeq(values, LAMBDA v : Truthy(v) /\ v.v > 0)
    IN  IF valid_values = <<>> THEN Sentinel("zero")
        ELSE Mean(valid_values, ulps)

\* timeseries_report.py lines 39-43: valid = [v for v in values if
\* isinstance(v, (int, float)) and v > 0]; None when there is none
TimeseriesGeoMean(values, ulps) ==
    LET valid == SelectSeq(values, LAMBDA v : ~v.none /\ v.v > 0)
    IN  IF valid = <<>> THEN Sentinel("none") ELSE Mean(valid, ulps)

\* The values tried: missing, negative, zero and positive ones.
GeoValues == { None } \cup { Num(n) : n \in {-1, 0, 4, 5, 9} }

GeoInit ==
    /\ geoIn \in SeqsUpTo(GeoValues, MaxValues)
    /\ geoOut = <<>>

CompareGeoMean ==
    /\ geoOut = <<>>
    /\ \E ulps \in RoundingErrors :
          geoOut' = <<[fn |-> "compare_results", value |-> GeoMean(geoIn, ulps)]>>
    /\ UNCHANGED geoIn

ReportGeoMean ==
    /\ geoOut = <<>>
    /\ \E ulps \in RoundingErrors :
          geoOut' = <<[fn |-> "timeseries_report",
                       value |-> TimeseriesGeoMean(geoIn, ulps)]>>
    /\ UNCHANGED geoIn

GeoOnly == UNCHANGED <<histVars, aggVars, cecVars, clsVars, dltVars, repVars, subVars, comVars>>

GeoNext ==
    \/ CompareGeoMean /\ GeoOnly
    \/ ReportGeoMean /\ GeoOnly

(***************************************************************************)
(* compare-results: the reports over all benchmarks                        *)
(***************************************************************************)
\* What a summary holds for a benchmark: nothing, or a record with the
\* metric "gates" and a "category" (NoKey when the record has no such key).
\* The code treats every metric alike; one is followed.
Absent == [present |-> FALSE, gates |-> None, category |-> NoKey]
Rec(g, c) == [present |-> TRUE, gates |-> g, category |-> c]

\* compare_all, lines 197-199: all_benchmarks
AllReported(names, sums) ==
    { b \in Bench : \E t \in Range(names) : sums[t][b].present }

\* lines 223-228: comparison, as the list of its keys (load order)
Comparison(names, sums, b) == SelectSeq(names, LAMBDA t : sums[t][b].present)

\* lines 230, 1301, 1330, 925: the benchmarks that get a row
RowBenchmarks(names, sums) ==
    { b \in AllReported(names, sums) : Len(Comparison(names, sums, b)) >= 2 }

\* display_differences, lines 1460-1495, behind display_table: the base is
\* the first tool of the comparison
ConsoleBaseline(names, sums, b) == Comparison(names, sums, b)[1]

ConsoleRow(names, sums, b) ==
    LET tools == Comparison(names, sums, b)
        base  == ConsoleBaseline(names, sums, b)
    IN  [baseline |-> base,
         pct |-> [t \in Range(tools) |->
                    IF t = base THEN NoPercent
                    ELSE DisplayDifference(sums[t][b].gates, sums[base][b].gates)]]

\* display_markdown, lines 1501-1545
ConsoleMarkdownRow(names, sums, b) ==
    LET tools == Comparison(names, sums, b)
        base  == ConsoleBaseline(names, sums, b)
    IN  [baseline |-> base,
         pct |-> [t \in Range(tools) |->
                    Fmt(sums[t][b].gates, sums[base][b].gates, t = base)]]

\* generate_json_report, lines 1294-1303: the records, no percentage
JsonRow(names, sums, b) ==
    [baseline |-> "",
     pct |-> [t \in Range(Comparison(names, sums, b)) |-> NoPercent]]

\* generate_markdown_report, lines 1337-1377: the baseline is tool_names[0];
\* comparison.get(baseline_tool, {}).get("gates", 0)
MarkdownRow(names, sums, b) ==
    [baseline |-> names[1],
     pct |-> [t \in Range(Comparison(names, sums, b)) |->
                Fmt(sums[t][b].gates, sums[names[1]][b].gates, t = names[1])]]

\* generate_html_report, lines 931-1026: one group of cells per tool of
\* tool_names, "N/A" for a tool without the benchmark
HtmlRow(names, sums, b) ==
    [baseline |-> names[1],
     pct |-> [t \in Range(names) |->
                FormatMetric(sums[t][b].gates, sums[names[1]][b].gates,
                             t = names[1])]]

\* get_category, lines 580-588: the "category" of the first summary that
\* has the benchmark (NoKey: the subscript raises KeyError)
GetCategory(names, sums, b) ==
    LET tools == Comparison(names, sums, b)
    IN  IF tools = <<>> THEN "Other" ELSE sums[tools[1]][b].category

\* lines 590-596: benchmarks_by_category[category]
BenchmarksByCategory(names, sums, category) ==
    { b \in AllReported(names, sums) : GetCategory(names, sums, b) = category }

SortedCategories(names, sums) ==
    { GetCategory(names, sums, b) : b \in AllReported(names, sums) }

\* _outlier_table_section, lines 251-262, and _bar_chart_section: the
\* benchmarks both tools have, the second tool against the first
RankingRows(names, sums) ==
    LET both == { b \in AllReported(names, sums) :
                    sums[names[1]][b].present /\ sums[names[2]][b].present }
    IN  [b \in both |-> OutlierDelta(sums[names[1]][b].gates, sums[names[2]][b].gates)]

\* lines 1111-1116 and 1191-1199: the records of tool t among the
\* benchmarks S, and lines 1129-1130: b.get(metric_key, 0)
GeoValuesOfShared(names, sums, t, S) ==
    LET mine == SelectSeq(Sorted(S), LAMBDA b : \A u \in Range(names) : sums[u][b].present)
    IN  [i \in DOMAIN mine |-> sums[t][mine[i]].gates]
GeoValuesOf(names, sums, t, S) ==
    LET mine == SelectSeq(Sorted(S), LAMBDA b : sums[t][b].present)
    IN  [i \in DOMAIN mine |->
           IF sums[t][mine[i]].gates.none THEN Num(0) ELSE sums[t][mine[i]].gates]

GeoEntry(values, ulps) == [values |-> values, mean |-> GeoMean(values, ulps)]

\* lines 1136-1166 and 1211-1240: the cell of the compared tool.  geo_mean
\* returns a number, 0 when it has no positive value, so compare_geo is
\* never the string "N/A"; a mean is positive, the sentinel 0 is not.
GeoCompareCell(baseline_geo, compare_geo) ==
    LET isNA == compare_geo.kind = "N/A"
    IN  IF baseline_geo.kind = "mean" /\ ~isNA
        THEN [text |-> "number", percent |-> TRUE, divisor |-> <<baseline_geo.kind>>]
        ELSE [text |-> IF isNA THEN "N/A" ELSE "number", percent |-> FALSE,
              divisor |-> <<>>]

\* lines 1082-1256: the geometric mean table, for two tools
GeoTable(names, sums, ulps) ==
    LET shown == { c \in SortedCategories(names, sums) :
                     \A t \in Range(names) :
                        GeoValuesOf(names, sums, t,
                                    BenchmarksByCategory(names, sums, c)) # <<>> }
    IN  [overall  |-> [t \in Range(names) |->
                         GeoEntry(GeoValuesOf(names, sums, t, Bench), ulps)],
         overallCell |->
            GeoCompareCell(GeoMean(GeoValuesOf(names, sums, names[1], Bench), ulps),
                           GeoMean(GeoValuesOf(names, sums, names[2], Bench), ulps)),
         categoryCell |-> [c \in shown |->
            GeoCompareCell(
               GeoMean(GeoValuesOf(names, sums, names[1],
                                   BenchmarksByCategory(names, sums, c)), ulps),
               GeoMean(GeoValuesOf(names, sums, names[2],
                                   BenchmarksByCategory(names, sums, c)), ulps))],
         category |-> [c \in shown |-> [t \in Range(names) |->
                         GeoEntry(GeoValuesOf(names, sums, t,
                                     BenchmarksByCategory(names, sums, c)), ulps)]]]

NoReport(format, status) ==
    [format |-> format, status |-> status, rows |-> <<>>, category |-> <<>>,
     ranking |-> <<>>, geo |-> <<>>]

\* A report whose only content is its rows.
RowsReport(format, rows) == [NoReport(format, "written") EXCEPT !.rows = rows]

\* compare_all, lines 201-203: nothing to compare
Reported == AllReported(repToolNames, repSummaries) # {}

RepWrite(report) ==
    /\ repOut = <<>>
    /\ repOut' = <<report>>
    /\ UNCHANGED <<repToolNames, repSummaries>>

\* compare_all with --format table, lines 222-232
CompareAllTable ==
    RepWrite(IF ~Reported THEN NoReport("table", "empty")
             ELSE RowsReport("table",
                     [b \in RowBenchmarks(repToolNames, repSummaries) |->
                        ConsoleRow(repToolNames, repSummaries, b)]))

\* compare_all with --format markdown and no --export, lines 222-232
CompareAllMarkdown ==
    RepWrite(IF ~Reported THEN NoReport("markdown", "empty")
             ELSE RowsReport("markdown",
                     [b \in RowBenchmarks(repToolNames, repSummaries) |->
                        ConsoleMarkdownRow(repToolNames, repSummaries, b)]))

\* compare_all with --format json --export, lines 211-213
GenerateJsonReport ==
    RepWrite(IF ~Reported THEN NoReport("json-file", "empty")
             ELSE RowsReport("json-file",
                     [b \in RowBenchmarks(repToolNames, repSummaries) |->
                        JsonRow(repToolNames, repSummaries, b)]))

\* compare_all with --format markdown --export, lines 216-218
GenerateMarkdownReport ==
    RepWrite(IF ~Reported THEN NoReport("markdown-file", "empty")
             ELSE RowsReport("markdown-file",
                     [b \in RowBenchmarks(repToolNames, repSummaries) |->
                        MarkdownRow(repToolNames, repSummaries, b)]))

\* compare_all with --format html --export, lines 206-208: the grouping by
\* category comes first and raises KeyError on a record without "category"
GenerateHtmlReport ==
    LET all == AllReported(repToolNames, repSummaries)
        two == Len(repToolNames) = 2
    IN  IF ~Reported THEN RepWrite(NoReport("html-file", "empty"))
        ELSE IF \E b \in all : GetCategory(repToolNames, repSummaries, b) = NoKey
        THEN RepWrite(NoReport("html-file", "raised"))
        ELSE \E ulps \in (IF two THEN RoundingErrors ELSE {0}) :
               RepWrite(
                 [format |-> "html-file", status |-> "written",
                  category |-> [b \in all |-> GetCategory(repToolNames, repSummaries, b)],
                  rows |-> [b \in RowBenchmarks(repToolNames, repSummaries) |->
                              HtmlRow(repToolNames, repSummaries, b)],
                  ranking |-> IF two THEN RankingRows(repToolNames, repSummaries)
                              ELSE <<>>,
                  geo |-> IF two THEN <<GeoTable(repToolNames, repSummaries, ulps)>>
                          ELSE <<>>])

\* The records tried: x varies in its value, z in its category, y in both.
RecordChoices(b) ==
    IF b = "x" THEN { Absent } \cup { Rec(Num(g), "arith") : g \in {0, 1, 2} }
    ELSE IF b = "y"
    THEN { Absent } \cup { Rec(Num(g), c) : g \in {1, 2}, c \in {"arith", "ctrl"} }
    ELSE { Absent } \cup { Rec(Num(2), c) : c \in {NoKey, "", "arith", "ctrl"} }

SummaryRecords ==
    { [b \in Bench |-> IF b = "x" THEN rx ELSE IF b = "y" THEN ry ELSE rz] :
        rx \in RecordChoices("x"), ry \in RecordChoices("y"),
        rz \in RecordChoices("z") }

EmptySummary == [b \in Bench |-> Absent]

\* The third summary, when one is loaded, has y and z.
ThirdSummary == [b \in Bench |-> IF b = "x" THEN Absent ELSE Rec(Num(4), "ctrl")]

\* main, lines 101-119: one to three summaries loaded, in command-line order
RepInit ==
    /\ \E n \in 1..3 :
          /\ repToolNames = SubSeq(ToolOrder, 1, n)
          /\ repSummaries \in
                { [t \in Tools |-> IF t = ToolOrder[1] THEN first
                                   ELSE IF t = ToolOrder[2] THEN second ELSE third] :
                    first  \in SummaryRecords,
                    second \in (IF n >= 2 THEN SummaryRecords ELSE {EmptySummary}),
                    third  \in (IF n = 3 THEN {ThirdSummary} ELSE {EmptySummary}) }
    /\ repOut = <<>>

RepOnly == UNCHANGED <<histVars, aggVars, cecVars, clsVars, dltVars, geoVars, subVars, comVars>>

RepNext ==
    \/ CompareAllTable /\ RepOnly
    \/ CompareAllMarkdown /\ RepOnly
    \/ GenerateJsonReport /\ RepOnly
    \/ GenerateMarkdownReport /\ RepOnly
    \/ GenerateHtmlReport /\ RepOnly

(***************************************************************************)
(* submit-results (utils/submit.py), followed by aggregate-results         *)
(***************************************************************************)
\* Largest number of directories in the path of the test file.
MaxDirs == 3

\* The components test_file.split("/") can give before the file name; an
\* absolute path starts with the empty component.
DirNames == {"", "tests", "Output", "comb", "seq"}

\* What the judge may print: JSON objects, JSON values that are no object,
\* and text that is no JSON (the empty output included).  A JSON value is
\* represented by its text.
JsonObjects == {"{\"gates\": 1}", "{\"gates\": 2, \"category\": \"x\"}"}

RawTexts == {"", "gates=1"}

\* line 77: sys.stdin.read().strip()
Strip(stdin) == stdin.body

\* lines 80-84: json.loads, and the raw text wrapped when it does not decode
JudgeData(input_data) ==
    IF input_data \in JsonObjects \cup NonMappings
    THEN input_data
    ELSE "{\"raw_output\": \"" \o input_data \o "\"}"

\* lines 87-89: the benchmark name, with the bit width appended
SubmitName(name, bitwidth) ==
    IF bitwidth.none THEN name ELSE name \o "_" \o ToString(bitwidth.v)

\* lines 94-98: the first component that is neither `tests` nor `Output`,
\* going from the file name towards the root
RECURSIVE FirstOther(_)
FirstOther(parts) ==
    IF parts = <<>> THEN "unknown"
    ELSE IF parts[Len(parts)] # "tests" /\ parts[Len(parts)] # "Output"
    THEN parts[Len(parts)]
    ELSE FirstOther(SubSeq(parts, 1, Len(parts) - 1))

\* lines 93-98; test_file.parts is test_file.split("/")
SubmitCategory(test_file) ==
    IF test_file.given
    THEN FirstOther(SubSeq(test_file.parts, 1, Len(test_file.parts) - 1))
    ELSE "unknown"

\* lines 106-126: the record, saved as <benchmark_name>.json in the results
\* directory of the tool, results/<tool>
ResultFile(in) ==
    ObjectFile("tool", SubmitName(in.name, in.bitwidth),
               SubmitName(in.name, in.bitwidth),
               JudgeData(Strip(in.stdin)),
               SubmitCategory(in.test_file))

\* submit.py main
SubmitResults ==
    /\ subFile = <<>>
    /\ subFile' = <<ResultFile(subIn)>>
    /\ UNCHANGED <<subIn, subSummary>>

\* aggregate_results.py lines 67-84: the for loop over the files found
RECURSIVE ProcessAll(_, _)
ProcessAll(r, files) ==
    IF files = <<>> THEN r
    ELSE ProcessAll(ProcessOne(r, Head(files)), Tail(files))

\* aggregate-results for the same tool over a directory that holds the file
\* written and the other files, in the order the glob lists them
SubAggregate ==
    /\ subFile # <<>>
    /\ subSummary = <<>>
    /\ subSummary' =
          <<ProcessAll(NoResults, Glob(subIn.before \o subFile \o subIn.after))>>
    /\ UNCHANGED <<subIn, subFile>>

SubNames == {"a", "c"}

BitWidths == {None, Num(8), Num(16)}

TestFiles ==
    { [given |-> FALSE, parts |-> <<>>] }
        \cup { [given |-> TRUE, parts |-> Append(dirs, "x.test")] :
                  dirs \in SeqsUpTo(DirNames, MaxDirs) }

\* Other files below the results directory: none, or one of the files of
\* the aggregator model at another path than the file written.
OtherFiles(in) ==
    { q \in SeqsUpTo(AggFiles, 1) :
        \A i \in DOMAIN q :
            ~(q[i].where = "tool" /\ q[i].stem = SubmitName(in.name, in.bitwidth)) }

SubInit ==
    /\ subIn \in [name : SubNames, bitwidth : BitWidths, test_file : TestFiles,
                  stdin : [body : JsonObjects \cup NonMappings \cup RawTexts,
                           trailing : {"\n"}],
                  before : SeqsUpTo(AggFiles, 1), after : SeqsUpTo(AggFiles, 1)]
    /\ subIn.before \in OtherFiles(subIn)
    /\ subIn.after \in OtherFiles(subIn)
    /\ subIn.before # <<>> => subIn.after = <<>>
    /\ subFile = <<>>
    /\ subSummary = <<>>

SubInputsIdle == subIn = <<>> /\ subFile = <<>> /\ subSummary = <<>>

SubOnly == UNCHANGED <<histVars, aggVars, cecVars, clsVars, dltVars, geoVars, repVars, comVars>>

SubNext ==
    \/ SubmitResults /\ SubOnly
    \/ SubAggregate /\ SubOnly

(***************************************************************************)
(* append-history run twice, for two entries, in both orders               *)
(***************************************************************************)
\* The entries a run can build: any date, two different contents.
ComEntries ==
    { BuildEntry(d, c, c) : d \in Dates,
                            c \in { f \in HistSummaryFiles : f.exists } }

\* The history files the runs start from: strictly ascending by date.
ComStarts ==
    { h \in SeqsUpTo(ComEntries, MaxDate) :
        \A i, j \in DOMAIN h : i < j => h[i].date < h[j].date }

\* One run of main() on a history file that exists (lines 36-73): the
\* series is loaded, updated with the entry and written back.
ComRun(file, entry, maxDays) ==
    [runs |-> file.runs + 1, series |-> UpdateHistory(file.series, entry, maxDays)]

ComRunA ==
    /\ comA.runs < 2
    /\ comA' = ComRun(comA, IF comA.runs = 0 THEN comIn.first ELSE comIn.second,
                      comIn.maxDays)
    /\ UNCHANGED <<comIn, comB>>

ComRunB ==
    /\ comB.runs < 2
    /\ comB' = ComRun(comB, IF comB.runs = 0 THEN comIn.second ELSE comIn.first,
                      comIn.maxDays)
    /\ UNCHANGED <<comIn, comA>>

ComInit ==
    /\ comIn \in [start : ComStarts, first : ComEntries, second : ComEntries,
                  maxDays : KeepLimits]
    /\ comIn.first.date # comIn.second.date
    /\ comA = [runs |-> 0, series |-> comIn.start]
    /\ comB = [runs |-> 0, series |-> comIn.start]

ComInputsIdle == comIn = <<>> /\ comA = <<>> /\ comB = <<>>

ComOnly ==
    UNCHANGED <<histVars, aggVars, cecVars, clsVars, dltVars, geoVars, repVars,
                subVars>>

ComNext ==
    \/ ComRunA /\ ComOnly
    \/ ComRunB /\ ComOnly

(***************************************************************************)
(* Specifications                                                          *)
(***************************************************************************)
AggInputsIdle == aggDirExists = FALSE /\ aggDir = <<>> /\ AggIdle

DltInputsIdle == dltIn = <<>> /\ dltOut = <<>>

GeoInputsIdle == geoIn = <<>> /\ geoOut = <<>>

RepInputsIdle == repToolNames = <<>> /\ repSummaries = <<>> /\ repOut = <<>>

InitHistory ==
    /\ HistInit /\ AggInputsIdle /\ CecInputsIdle
    /\ ClsInputsIdle /\ DltInputsIdle /\ GeoInputsIdle /\ RepInputsIdle /\ SubInputsIdle
    /\ ComInputsIdle

InitAgg ==
    /\ HistInit /\ AggInit /\ CecInputsIdle
    /\ ClsInputsIdle /\ DltInputsIdle /\ GeoInputsIdle /\ RepInputsIdle /\ SubInputsIdle
    /\ ComInputsIdle

InitCec ==
    /\ HistInit /\ AggInputsIdle /\ CecInit
    /\ ClsInputsIdle /\ DltInputsIdle /\ GeoInputsIdle /\ RepInputsIdle /\ SubInputsIdle
    /\ ComInputsIdle

InitClassify ==
    /\ HistInit /\ AggInputsIdle /\ CecInputsIdle
    /\ ClsInit /\ DltInputsIdle /\ GeoInputsIdle /\ RepInputsIdle /\ SubInputsIdle
    /\ ComInputsIdle

ClsOnly == UNCHANGED <<histVars, aggVars, cecVars, dltVars, geoVars, repVars, subVars, comVars>>

ClsNext == ClassifyCall /\ ClsOnly

InitDelta ==
    /\ HistInit /\ AggInputsIdle /\ CecInputsIdle
    /\ ClsInputsIdle /\ DltInit /\ GeoInputsIdle /\ RepInputsIdle /\ SubInputsIdle
    /\ ComInputsIdle

SpecDelta == InitDelta /\ [][DltNext]_vars

InitGeo ==
    /\ HistInit /\ AggInputsIdle /\ CecInputsIdle
    /\ ClsInputsIdle /\ DltInputsIdle /\ GeoInit /\ RepInputsIdle /\ SubInputsIdle
    /\ ComInputsIdle

SpecGeo == InitGeo /\ [][GeoNext]_vars

InitReport ==
    /\ HistInit /\ AggInputsIdle /\ CecInputsIdle
    /\ ClsInputsIdle /\ DltInputsIdle /\ GeoInputsIdle /\ RepInit /\ SubInputsIdle
    /\ ComInputsIdle

SpecReport == InitReport /\ [][RepNext]_vars

InitSubmit ==
    /\ HistInit /\ AggInputsIdle /\ CecInputsIdle
    /\ ClsInputsIdle /\ DltInputsIdle /\ GeoInputsIdle /\ RepInputsIdle /\ SubInit
    /\ ComInputsIdle

SpecSubmit == InitSubmit /\ [][SubNext]_vars

InitCommute ==
    /\ HistInit /\ AggInputsIdle /\ CecInputsIdle
    /\ ClsInputsIdle /\ DltInputsIdle /\ GeoInputsIdle /\ RepInputsIdle
    /\ SubInputsIdle /\ ComInit

SpecCommute == InitCommute /\ [][ComNext]_vars

SpecHistory == InitHistory /\ [][HistNext]_vars

SpecAgg == InitAgg /\ [][AggNext]_vars

SpecCec == InitCec /\ [][CecNext]_vars

\* run_cec with its threads scheduled: the main thread and the pool threads
\* are OS threads that keep running, and subprocess.run is given a timeout,
\* so a step that can be taken is taken.
SpecCecFair == InitCec /\ [][CecNext]_vars /\ WF_vars(CecNext)

SpecClassify == InitClassify /\ [][ClsNext]_vars

(***************************************************************************)
(* Properties of append-history (checked under SpecHistory)                *)
(***************************************************************************)
StrictlyAscending(s) == \A i, j \in DOMAIN s : i < j => s[i].date < s[j].date

\* What the last successful run had to choose from: the old series without
\* the target date, plus the new entry.
Candidates ==
    { e \in Range(lastRun.before) : e.date # lastRun.date } \cup {lastRun.entry}

NewerThan(e, S) == { f \in S : f.date > e.date }

\* The entries of S with the n greatest dates.
Newest(S, n) == { e \in S : Cardinality(NewerThan(e, S)) < n }

HadEntryForDate ==
    /\ lastRun.status = 0
    /\ \E i \in DOMAIN lastRun.before : lastRun.before[i].date = lastRun.date

OtherDates(h) == SelectSeq(h, LAMBDA e : e.date # lastRun.date)

EntriesForDate(h) == { i \in DOMAIN h : h[i].date = lastRun.date }

\* The entry the claim expects for the last run: the target date with the
\* version and the benchmarks of each supplied summary ("unknown" and the
\* empty mapping where a summary has none).
SuppliedEntry ==
    [ date          |-> lastRun.date,
      circt_version |-> IF lastRun.circt.version = NoKey
                        THEN "unknown" ELSE lastRun.circt.version,
      yosys_version |-> IF lastRun.yosys.version = NoKey
                        THEN "unknown" ELSE lastRun.yosys.version,
      circt         |-> IF lastRun.circt.benchmarks = NoKey
                        THEN "{}" ELSE lastRun.circt.benchmarks,
      yosys         |-> IF lastRun.yosys.benchmarks = NoKey
                        THEN "{}" ELSE lastRun.yosys.benchmarks ]

\* C1: idempotent append.  When a successful run is followed by a run with
\* the same date, the same summaries (hence the same entry) and the same
\* retention limit, the second run leaves the stored series exactly as the
\* first one left it.
C1_IdempotentAppend ==
    lastRun.repeat =>
        /\ history = lastRun.before
        /\ historyExists = lastRun.beforeExists

\* A repeated run on a series of several entries, the repeated entry inside.
C1_Witness ==
    /\ lastRun.repeat
    /\ Len(history) >= 2
    /\ lastRun.entry \in Range(history)

\* C2: retention bound.  After a successful run with limit N > 0 the series
\* has at most N entries, they are exactly the N newest of (old series
\* without the target date) plus the new entry, in ascending order; with
\* limit 0 nothing is dropped.
C2_RetentionBound ==
    lastRun.status = 0 =>
        /\ lastRun.maxDays > 0 =>
              /\ Len(history) <= lastRun.maxDays
              /\ Range(history) = Newest(Candidates, lastRun.maxDays)
              /\ Len(history) = Cardinality(Newest(Candidates, lastRun.maxDays))
              /\ StrictlyAscending(history)
        /\ lastRun.maxDays = 0 =>
              /\ Range(history) = Candidates
              /\ Len(history) = Cardinality(Candidates)

\* The (N+1)-th distinct date arrives under limit N >= 2: one entry is dropped.
C2_Witness ==
    /\ lastRun.status = 0
    /\ lastRun.maxDays >= 2
    /\ Len(lastRun.before) = lastRun.maxDays
    /\ ~HadEntryForDate
    /\ Len(history) = lastRun.maxDays
    /\ Cardinality(Candidates) = lastRun.maxDays + 1

\* C3: starting from an absent history file, the stored series is always
\* strictly ascending by date (sorted, no date twice).
C3_StrictlyAscending == StrictlyAscending(history)

\* A back-filled entry landed between two older entries.
C3_Witness ==
    /\ lastRun.status = 0
    /\ Len(lastRun.before) = 2
    /\ Len(history) = 3
    /\ history[2] = lastRun.entry

\* C4 as stated: appending for a date that already has an entry leaves
\* exactly one entry for that date, the newly built one (whatever the
\* retention limit), and with limit 0 every other entry keeps its content
\* and relative order.
C4_ReplaceAsStated ==
    HadEntryForDate =>
        /\ Cardinality(EntriesForDate(history)) = 1
        /\ \A i \in EntriesForDate(history) : history[i] = SuppliedEntry
        /\ lastRun.maxDays = 0 => OtherDates(history) = OtherDates(lastRun.before)

\* The new entry survives the truncation of line 70.
NewEntryRetained ==
    \/ lastRun.maxDays = 0
    \/ Cardinality(NewerThan(lastRun.entry, Candidates)) < lastRun.maxDays

\* C4 (amended): appending for a date that already has an entry removes the
\* old entry; the newly built entry takes its place when it survives
\* retention (limit 0, or the date is among the N greatest), otherwise no
\* entry for that date remains; with limit 0 every other entry keeps its
\* content and relative order.
C4_ReplaceAmended ==
    HadEntryForDate =>
        /\ \A i \in EntriesForDate(history) : history[i] = SuppliedEntry
        /\ NewEntryRetained => Cardinality(EntriesForDate(history)) = 1
        /\ ~NewEntryRetained => EntriesForDate(history) = {}
        /\ lastRun.maxDays = 0 => OtherDates(history) = OtherDates(lastRun.before)

\* An entry in the middle of a longer series is replaced by a different one.
C4_Witness ==
    /\ HadEntryForDate
    /\ lastRun.maxDays = 0
    /\ SuppliedEntry \notin Range(lastRun.before)
    /\ Len(history) = 3
    /\ history[2] = SuppliedEntry

\* The entry built by the last run is in the stored series.
HasNewEntry == \E i \in DOMAIN history : history[i] = lastRun.entry

\* The dates of the series the last run had after inserting its entry and
\* before truncating: the old dates other than d, and d.
MergedDates ==
    { lastRun.before[i].date : i \in DOMAIN lastRun.before } \cup {lastRun.date}

\* d is among the n greatest of the dates D.
AmongGreatest(d, D, n) == Cardinality({ x \in D : x > d }) < n

\* C28: after a successful run for date d with retention limit N, the
\* stored series holds the entry just built iff N = 0 or d is among the N
\* greatest dates of the series with the entry inserted; a back-filled
\* entry older than the N retained dates is gone after the very run that
\* inserted it: no entry for d is stored and every stored date is later.
C28_RetainedIffAmongNewest ==
    lastRun.status = 0 =>
        /\ HasNewEntry <=>
              \/ lastRun.maxDays = 0
              \/ AmongGreatest(lastRun.date, MergedDates, lastRun.maxDays)
        /\ HasNewEntry =>
              /\ Cardinality(EntriesForDate(history)) = 1
              /\ lastRun.maxDays > 0 =>
                    AmongGreatest(lastRun.date,
                                  { history[i].date : i \in DOMAIN history },
                                  lastRun.maxDays)
        /\ ~HasNewEntry =>
              /\ EntriesForDate(history) = {}
              /\ Len(history) = lastRun.maxDays
              /\ \A i \in DOMAIN history : history[i].date > lastRun.date

\* A back-fill under limit N >= 2 for a date older than the N stored ones:
\* the series is as before and the new entry is not in it.
C28_Witness ==
    /\ lastRun.status = 0
    /\ lastRun.maxDays >= 2
    /\ ~HadEntryForDate
    /\ Len(lastRun.before) = lastRun.maxDays
    /\ ~HasNewEntry
    /\ history = lastRun.before

\* C30: when one of the two summary files does not exist, the run exits
\* with status 1 and the history file is exactly as before: still absent
\* when it was absent, with the same series when it was there.
C30_MissingSummaryLeavesHistory ==
    (lastRun.status # -1 /\ (~lastRun.circt.exists \/ ~lastRun.yosys.exists)) =>
        /\ exitStatus = 1
        /\ lastRun.status = 1
        /\ historyExists = lastRun.beforeExists
        /\ historyExists => history = lastRun.before
        /\ ~historyExists => history = <<>>

\* A failed run on a history file of two entries.
C30_Witness ==
    /\ lastRun.status = 1
    /\ lastRun.circt.exists /\ ~lastRun.yosys.exists
    /\ exitStatus = 1
    /\ historyExists
    /\ Len(history) = 2
    /\ history = lastRun.before

(***************************************************************************)
(* Properties of two append-history runs (checked under SpecCommute)       *)
(***************************************************************************)
ComDone == comA.runs = 2 /\ comB.runs = 2

\* C29: appends commute.  From one strictly ascending starting series and
\* with one retention limit, the runs for two entries of distinct dates
\* leave the same stored series whichever of them runs first.
C29_AppendsCommute ==
    ComDone => comA.series = comB.series

\* Both orders are done; the start already held another entry for one of
\* the dates, the limit cut the series, and both entries are stored.
C29_Witness ==
    /\ ComDone
    /\ comIn.maxDays = 2
    /\ Len(comIn.start) = 3
    /\ comIn.first.date > comIn.second.date
    /\ comIn.first \notin Range(comIn.start)
    /\ comA.series = <<comIn.second, comIn.first>>

(***************************************************************************)
(* Properties of aggregate-results (checked under SpecAgg)                 *)
(***************************************************************************)
\* A valid result file is a JSON object; anything else is malformed.
ValidScanned == { i \in DOMAIN aggJsonFiles : aggJsonFiles[i].json = "object" }

MalformedScanned == (DOMAIN aggJsonFiles) \ ValidScanned

RecordName(f) == IF f.benchmark = NoKey THEN f.stem ELSE f.benchmark

DistinctNames ==
    \A i, j \in ValidScanned :
        i # j => RecordName(aggJsonFiles[i]) # RecordName(aggJsonFiles[j])

AggFinished == aggPc = "done" /\ aggDirExists

RecordsOfTool ==
    { aggDir[i] : i \in { j \in DOMAIN aggDir :
                            aggDir[j].where = "tool" /\ aggDir[j].json = "object" } }

\* C23 as stated: every entry of the summary written for a tool is the entry
\* of one of that tool's own result records; a file of another tool, or a
\* JSON file that is no result record of the tool, contributes nothing.
C23_OnlyOwnRecords ==
    AggFinished =>
        \A k \in DOMAIN aggSummary[1].benchmarks :
            \E f \in RecordsOfTool :
                /\ BenchmarkName(f) = k
                /\ aggSummary[1].benchmarks[k] = MergedMetrics(f)

\* The last valid scanned file that carries the name k.
LastNamed(k) ==
    LET named == { i \in ValidScanned : RecordName(aggJsonFiles[i]) = k }
    IN  aggJsonFiles[CHOOSE i \in named : \A j \in named : j <= i]

\* C26: the merge key of a record is its `benchmark` field, or the base name
\* of its file when the field is absent; the summary has exactly one entry
\* per key, and when several valid files carry one name the entry holds the
\* metrics (with the category copied in) of the file processed last.
C26_LastWriterWins ==
    AggFinished =>
        /\ DOMAIN aggSummary[1].benchmarks =
              { RecordName(aggJsonFiles[i]) : i \in ValidScanned }
        /\ \A k \in DOMAIN aggSummary[1].benchmarks :
              /\ aggSummary[1].benchmarks[k].metrics =
                    (IF LastNamed(k).metrics = NoKey THEN "{}"
                     ELSE LastNamed(k).metrics)
              /\ aggSummary[1].benchmarks[k].category = LastNamed(k).category

\* A finished run over two valid files of one name with different metrics,
\* and a file named by its base name only.
C26_Witness ==
    /\ AggFinished
    /\ \E i, j \in ValidScanned :
          /\ i < j
          /\ RecordName(aggJsonFiles[i]) = RecordName(aggJsonFiles[j])
          /\ aggJsonFiles[i].metrics # aggJsonFiles[j].metrics
    /\ \E i \in ValidScanned : aggJsonFiles[i].benchmark = NoKey

(***************************************************************************)
(* Properties of run_cec (checked under SpecCec)                           *)
(***************************************************************************)
\* The two summaries being compared.
FirstTwo == Range(SubSeq(cecToolNames, 1, 2))

\* run_cec got past its configuration checks: ABC found, two tools or more.
Configured == cecAbcFound /\ Len(cecToolNames) >= 2

Returned == Configured /\ cecPc = "returned"

Ended == Configured /\ cecPc \in {"returned", "raised"}

\* Both summaries record for b an artifact path that exists on disk.
BothExist(b) == \A t \in FirstTwo : cecSummaries[t][b] = "ok"

BenchmarksOf(t) == { b \in Bench : cecSummaries[t][b] # "absent" }

UnionOfTwo == UNION { BenchmarksOf(t) : t \in FirstTwo }

\* C6: the oracle is invoked exactly once for every benchmark whose two
\* artifacts exist and never for another one (at no moment of the run, for
\* any jobs); a benchmark of the two summaries without both artifacts ends
\* as `missing` with no call.
C6_ExactlyOnce ==
    Configured =>
        /\ cecPc # "raised"
        /\ \A b \in Bench :
              /\ cecCalls[b] <= 1
              /\ cecCalls[b] = 1 => BothExist(b)
        /\ cecPc = "returned" =>
              \A b \in Bench :
                 /\ BothExist(b) => cecCalls[b] = 1
                 /\ (b \in UnionOfTwo /\ ~BothExist(b)) =>
                       /\ b \in DOMAIN cecStatusMap
                       /\ cecStatusMap[b] = "missing"
                       /\ cecCalls[b] = 0

\* A parallel run with two oracle calls in flight together and a benchmark
\* skipped as missing.
C6_Witness ==
    /\ Returned
    /\ cecPeak >= 2
    /\ Cardinality({ b \in Bench : cecCalls[b] = 1 }) >= 2
    /\ \E b \in UnionOfTwo : ~BothExist(b) /\ cecStatusMap[b] = "missing"

\* C7 as stated: the keys of the returned map are exactly the benchmark
\* names of the first two summaries, whatever other summaries are passed.
C7_KeysAreUnionOfTwo ==
    Returned => DOMAIN cecStatusMap = UnionOfTwo

\* The inputs of C8: tool A has {x, y}, tool B has {y, z}.
C8_Inputs ==
    /\ Configured
    /\ BenchmarksOf(cecToolNames[1]) = {"x", "y"}
    /\ BenchmarksOf(cecToolNames[2]) = {"y", "z"}

\* C8 as stated: on those inputs the returned map has exactly one entry,
\* for y; x and z do not appear.
C8_OnlySharedAsStated ==
    (Returned /\ C8_Inputs) => DOMAIN cecStatusMap = {"y"}

RealVerdicts == {"equivalent", "not_equivalent", "timeout", "error"}

\* C8 (amended): on those inputs the returned map has three entries: y with
\* a real verdict if both artifact paths exist and `missing` otherwise, and
\* x and z, each `missing`.
C8_SharedAndMissing ==
    (Returned /\ C8_Inputs) =>
        /\ DOMAIN cecStatusMap = {"x", "y", "z"}
        /\ cecStatusMap["x"] = "missing"
        /\ cecStatusMap["z"] = "missing"
        /\ BothExist("y") => cecStatusMap["y"] \in RealVerdicts
        /\ ~BothExist("y") => cecStatusMap["y"] = "missing"

C8_Witness ==
    /\ Returned
    /\ C8_Inputs
    /\ BothExist("y")
    /\ cecCalls["y"] = 1
    /\ cecStatusMap["y"] = "equivalent"

\* What run_cec returns with jobs=1 on the inputs of this run: line 72 over
\* to_check in order, then lines 89-122.
SequentialMap ==
    LET tc == ToCheck(cecToolNames, cecSummaries)
        rs == [i \in DOMAIN tc |-> <<RunOneCec(tc[i], cecOracle[tc[i]])>>]
    IN  StatusMap(Tally([NoLists EXCEPT
                           !.missing = MissingList(cecToolNames, cecSummaries)],
                        rs))

\* C9: with the oracle fixed, every run (any jobs, any interleaving and
\* completion order of the pool threads) ends by returning the map that
\* jobs=1 returns on the same summaries.
C9_SameMapAsSequential ==
    Ended => (cecPc = "returned" /\ cecStatusMap = SequentialMap)

Reverse(q) == [i \in DOMAIN q |-> q[Len(q) + 1 - i]]

\* A parallel run whose futures completed in the reverse of submission order.
C9_Witness ==
    /\ Returned
    /\ cecWorkers >= 2
    /\ Len(cecToCheck) >= 2
    /\ cecArrival = Reverse(cecToCheck)

\* The verdict an oracle call's own outcome determines.
OwnVerdict(o) ==
    IF o.kind = "timeout" THEN "timeout"
    ELSE IF o.kind = "completed" /\ o.eq THEN "equivalent"
    ELSE IF o.kind = "completed" /\ o.neq THEN "not_equivalent"
    ELSE "error"

\* C10: timeout isolation.  A benchmark ends as `timeout` exactly when its
\* own oracle call exceeded the time budget; every other dispatched
\* benchmark is still called once and ends with the verdict of its own
\* output, also while a sibling call timed out.
C10_TimeoutIsolation ==
    Configured =>
        /\ \A b \in Bench :
              cecFut[b].state \in {"finished", "collected"} =>
                 cecFut[b].result[1].status = OwnVerdict(cecOracle[b])
        /\ cecPc = "returned" =>
              \A b \in DOMAIN cecStatusMap :
                 /\ cecStatusMap[b] = "timeout" <=>
                       (BothExist(b) /\ cecOracle[b].kind = "timeout")
                 /\ BothExist(b) =>
                       /\ cecCalls[b] = 1
                       /\ cecStatusMap[b] = OwnVerdict(cecOracle[b])

\* Two calls were in flight together, the first to complete timed out, and
\* the other one ended as equivalent.
C10_Witness ==
    /\ Returned
    /\ cecPeak >= 2
    /\ Len(cecArrival) >= 2
    /\ cecStatusMap[cecArrival[1]] = "timeout"
    /\ \E b \in Range(cecArrival) : cecStatusMap[b] = "equivalent"

\* The oracle call of b does not yield a verdict: it raises, times out, or
\* completes with an output that holds neither marker.
CallFails(b) ==
    \/ cecOracle[b].kind \in {"raise", "timeout"}
    \/ cecOracle[b].kind = "completed" /\ ~cecOracle[b].eq /\ ~cecOracle[b].neq

\* C11: no failing oracle call aborts the batch.  A configured run never
\* ends by raising and can always take its next step until it returns; the
\* map it returns holds one of the five categories for every benchmark of
\* the two summaries, and a dispatched benchmark whose call failed is there
\* as `timeout` (time budget exceeded) or `error` (anything else).
C11_NoAbort ==
    Configured =>
        /\ cecPc # "raised"
        /\ cecPc # "returned" => ENABLED CecNext
        /\ cecPc = "returned" =>
              /\ UnionOfTwo \subseteq DOMAIN cecStatusMap
              /\ \A b \in DOMAIN cecStatusMap : cecStatusMap[b] \in Range(CategoryOrder)
              /\ \A b \in Bench :
                    (BothExist(b) /\ CallFails(b)) =>
                       /\ b \in DOMAIN cecStatusMap
                       /\ cecStatusMap[b] =
                             IF cecOracle[b].kind = "timeout" THEN "timeout" ELSE "error"

\* A parallel run in which one call raised, one timed out and one printed
\* unexpected output: all three are in the returned map.
C11_Witness ==
    /\ Returned
    /\ cecPeak >= 2
    /\ \E a, b, c \in Bench :
          /\ BothExist(a) /\ BothExist(b) /\ BothExist(c)
          /\ cecOracle[a].kind = "raise" /\ cecStatusMap[a] = "error"
          /\ cecOracle[b].kind = "timeout" /\ cecStatusMap[b] = "timeout"
          /\ cecOracle[c].kind = "completed" /\ cecStatusMap[c] = "error"

\* The concurrency bound the claim states: jobs when given, the CPU count
\* otherwise (one when it is unknown), and never less than one.
ConcurrencyBound ==
    LET requested == IF cecJobs.given THEN cecJobs.jobs ELSE cecJobs.cpu
    IN  IF requested <= 0 THEN 1 ELSE requested

\* C13: from the moment a configured run has computed its worker count,
\* that count is the concurrency bound (at least 1), and the number of
\* oracle calls in flight never exceeds it.
C13_BoundedPool ==
    (Configured /\ cecPc # "start") =>
        /\ cecWorkers = ConcurrencyBound
        /\ cecWorkers >= 1
        /\ Cardinality(Running) <= ConcurrencyBound
        /\ cecPeak <= ConcurrencyBound

\* The bound holds a call back: as many calls in flight as the bound allows
\* (two or more) while another one is queued.
C13_Witness ==
    /\ Configured
    /\ cecPc = "pool"
    /\ ConcurrencyBound >= 2
    /\ Cardinality(Running) = ConcurrencyBound
    /\ \E b \in Bench : cecFut[b].state = "queued"

(***************************************************************************)
(* Properties of _run_one_cec (checked under SpecClassify)                 *)
(***************************************************************************)
ClsCompleted == clsResult # <<>> /\ clsProc.kind = "completed"

\* The text the classification reads: stdout followed by stderr.
ClsText == clsProc.stdout \o clsProc.stderr

ClsHasSuccess == \E i \in DOMAIN ClsText : ClsText[i] = SuccessLine

ClsHasFailure ==
    \E i \in DOMAIN ClsText :
        ClsText[i] \in {FailLine, FailUpperOnlyLine, FailLowerOnlyLine}

\* The lines of the text between its first and its last non-blank line.
ClsTrimmed ==
    LET nonBlank == { i \in DOMAIN ClsText : ClsText[i] # BlankLine }
    IN  IF nonBlank = {} THEN <<>>
        ELSE SubSeq(ClsText,
                    CHOOSE i \in nonBlank : \A j \in nonBlank : i <= j,
                    CHOOSE i \in nonBlank : \A j \in nonBlank : i >= j)

\* C12: the verdict of a completed oracle call is a function of the text of
\* stdout+stderr alone, whatever the exit code: `equivalent` when the text
\* holds the success marker; otherwise `not_equivalent` when it holds a
\* failure marker; otherwise `error`, whose detail is the last three lines
\* of the text (all of them when there are fewer; blank lines at either end
\* of the text are not counted).
C12_OutputClassification ==
    ClsCompleted =>
        LET r == clsResult[1]
            n == Len(ClsTrimmed)
        IN  /\ r.status \in {"equivalent", "not_equivalent", "error"}
            /\ ClsHasSuccess => r.status = "equivalent"
            /\ (~ClsHasSuccess /\ ClsHasFailure) => r.status = "not_equivalent"
            /\ (~ClsHasSuccess /\ ~ClsHasFailure) =>
                  /\ r.status = "error"
                  /\ Len(r.detail) = 1 + (IF n < 3 THEN n ELSE 3)
                  /\ \A k \in 1..(Len(r.detail) - 1) :
                        r.detail[Len(r.detail) + 1 - k] = ClsTrimmed[n + 1 - k]

\* Exit code 0 with four lines of text and no marker: `error`, the detail
\* holding the last three lines; the text came from both streams.
C12_Witness ==
    /\ ClsCompleted
    /\ clsProc.exit = 0
    /\ clsProc.stdout # <<>> /\ clsProc.stderr # <<>>
    /\ Len(ClsTrimmed) = 4
    /\ clsResult[1].status = "error"
    /\ Len(clsResult[1].detail) = 4

(***************************************************************************)
(* Properties of the percent delta (checked under SpecDelta)               *)
(***************************************************************************)
DltDone == dltOut # <<>>

\* p, in units of 1/scale percent, is (value - baseline) / baseline * 100
\* to the nearest unit.
IsPercentOf(p, scale, value, baseline) ==
    LET err == p * baseline - (value - baseline) * 100 * scale
    IN  2 * (IF err < 0 THEN -err ELSE err) <= baseline

\* C14 as stated: in the ranking table and the bar chart, whenever the
\* baseline value is positive and the compared tool reports a value, the
\* delta is the number (compare - baseline) / baseline * 100 (to the two
\* decimals kept), negative when the compared tool is lower.
C14_DeltaWheneverReported ==
    (/\ DltDone
     /\ dltOut[1].path \in {"outlier", "bar"}
     /\ ~dltIn.baseline.none /\ dltIn.baseline.v > 0
     /\ ~dltIn.value.none) =>
        /\ ~dltOut[1].result.null
        /\ IsPercentOf(dltOut[1].result.pct, dltOut[1].result.scale,
                       dltIn.value.v, dltIn.baseline.v)
        /\ dltIn.value.v < dltIn.baseline.v => dltOut[1].result.pct < 0

\* C15 as stated: on every report path, a baseline that is missing, zero or
\* negative gives no percentage and no division; and nothing ever divides
\* by zero.
C15_NullWithoutPositiveBaseline ==
    DltDone =>
        /\ dltOut[1].result.divisor # <<0>>
        /\ (dltIn.baseline.none \/ dltIn.baseline.v <= 0) =>
              /\ dltOut[1].result.null
              /\ dltOut[1].result.divisor = <<>>

(***************************************************************************)
(* Properties of geo_mean (checked under SpecGeo)                          *)
(***************************************************************************)
GeoDone == geoOut # <<>>

\* The values of the list that are strictly positive numbers, in order.
PositiveValues == SelectSeq(geoIn, LAMBDA v : ~v.none /\ v.v >= 1)

RECURSIVE Power(_, _)
Power(g, n) == IF n = 0 THEN 1 ELSE g * Power(g, n - 1)

\* r is the geometric mean of `values`, as a real number.
IsGeometricMeanOf(r, values) ==
    /\ r.kind = "mean"
    /\ r.count = Len(values)
    /\ r.product = Product(values)

\* r is exactly the number g.
IsExactly(r, g) == r.kind = "mean" /\ r.product = Power(g, r.count) /\ r.ulps = 0

\* C19 as stated: geo_mean ignores the values that are not strictly
\* positive and returns the geometric mean of the others, exactly:
\* geo_mean([4, 9]) is 6 and geo_mean([0, 5]) is 5; with no positive value
\* it returns the no-data sentinel (0 in compare_results, None in
\* timeseries_report).
C19_GeoMeanExact ==
    GeoDone =>
        /\ PositiveValues = <<>> => geoOut[1].value.kind \in {"zero", "none"}
        /\ PositiveValues # <<>> =>
              /\ IsGeometricMeanOf(geoOut[1].value, PositiveValues)
              /\ geoOut[1].value.ulps = 0
        /\ geoIn = <<Num(4), Num(9)>> => IsExactly(geoOut[1].value, 6)
        /\ geoIn = <<Num(0), Num(5)>> => IsExactly(geoOut[1].value, 5)

\* r is the number g up to the rounding of the float computation.
IsAbout(r, g) ==
    /\ r.kind = "mean"
    /\ r.product = Power(g, r.count)
    /\ r.ulps \in RoundingErrors

\* C19 (amended): the same, up to floating-point rounding: the float
\* returned is the geometric mean of the strictly positive values to within
\* the rounding error of exp and log, so geo_mean([4, 9]) is 6 and
\* geo_mean([0, 5]) is 5 up to that error; the sentinel is returned, and
\* nothing is raised, when no positive value remains.
C19_GeoMeanRounded ==
    GeoDone =>
        /\ PositiveValues = <<>> =>
              geoOut[1].value.kind =
                 IF geoOut[1].fn = "compare_results" THEN "zero" ELSE "none"
        /\ PositiveValues # <<>> =>
              /\ IsGeometricMeanOf(geoOut[1].value, PositiveValues)
              /\ geoOut[1].value.ulps \in RoundingErrors
        /\ geoIn = <<Num(4), Num(9)>> => IsAbout(geoOut[1].value, 6)
        /\ geoIn = <<Num(0), Num(5)>> => IsAbout(geoOut[1].value, 5)

\* A list with a missing, a non-positive and two positive values.
C19_Witness ==
    /\ GeoDone
    /\ Len(geoIn) = 3
    /\ Len(PositiveValues) = 2
    /\ geoOut[1].value.kind = "mean"
    /\ geoOut[1].value.count = 2

(***************************************************************************)
(* Properties of the reports over all benchmarks (checked under SpecReport)*)
(***************************************************************************)
RepDone == repOut # <<>>

Loaded == Range(repToolNames)

\* The loaded summaries that report b.
Reporting(b) == { t \in Loaded : repSummaries[t][b].present }

\* C16 as stated: every all-benchmark report (console, JSON, Markdown,
\* HTML) is produced without an error and has a row for a benchmark exactly
\* when two or more loaded summaries report it.
C16_RowIffTwoReport ==
    RepDone =>
        /\ repOut[1].status # "raised"
        /\ \A b \in Bench :
              b \in DOMAIN repOut[1].rows <=> Cardinality(Reporting(b)) >= 2

\* C17 as stated: in every report the baseline of a row is the first tool
\* loaded; a percentage shown for a tool is that tool's value relative to
\* the first loaded tool's value for the benchmark; the baseline tool's own
\* cell has no percentage.
C17_BaselineIsFirstLoaded ==
    (RepDone /\ repOut[1].format # "json-file") =>
        \A b \in DOMAIN repOut[1].rows :
           LET row   == repOut[1].rows[b]
               first == repToolNames[1]
           IN  /\ row.baseline = first
               /\ \A t \in DOMAIN row.pct :
                     ~row.pct[t].null =>
                        /\ t # first
                        /\ repSummaries[first][b].present
                        /\ IsPercentOf(row.pct[t].pct, row.pct[t].scale,
                                       repSummaries[t][b].gates.v,
                                       repSummaries[first][b].gates.v)

\* The categories recorded for b, in load order, by the summaries that
\* report it; empty and missing ones left out.
NonEmptyCategories(b) ==
    LET carriers == SelectSeq(repToolNames, LAMBDA t : repSummaries[t][b].present)
        recorded == [i \in DOMAIN carriers |-> repSummaries[carriers[i]][b].category]
    IN  SelectSeq(recorded, LAMBDA c : c # NoKey /\ c # "")

\* C18 as stated: the HTML report never fails on the grouping, and it puts
\* every reported benchmark in the first non-empty category found across
\* the summaries that report it, or in "Other" when there is none.
C18_FirstNonEmptyCategory ==
    (RepDone /\ repOut[1].format = "html-file" /\ repOut[1].status # "empty") =>
        /\ repOut[1].status = "written"
        /\ \A b \in Bench :
              Reporting(b) # {} =>
                 /\ b \in DOMAIN repOut[1].category
                 /\ repOut[1].category[b] =
                       IF NonEmptyCategories(b) = <<>> THEN "Other"
                       ELSE NonEmptyCategories(b)[1]

\* The geometric mean table of a written HTML report.
HasGeoTable ==
    /\ RepDone
    /\ repOut[1].status = "written"
    /\ repOut[1].geo # <<>>

\* The values of "gates" of tool t over the benchmarks of S it reports.
ReportedValues(t, S) ==
    LET mine == SelectSeq(BenchOrder, LAMBDA b : b \in S /\ repSummaries[t][b].present)
    IN  [i \in DOMAIN mine |-> repSummaries[t][mine[i]].gates]

\* e holds the geometric mean of exactly these values (the positive ones).
IsGeoEntryOf(e, values) ==
    LET positive == SelectSeq(values, LAMBDA v : ~v.none /\ v.v >= 1)
    IN  /\ e.values = values
        /\ IF positive = <<>> THEN e.mean.kind = "zero"
           ELSE /\ e.mean.kind = "mean"
                /\ e.mean.count = Len(positive)
                /\ e.mean.product = Product(positive)

\* C20: in the geometric mean table the Overall value of each tool is the
\* geometric mean over all the benchmarks that tool reports, and the value
\* of a tool in a category row is the one over all the benchmarks of that
\* category that tool reports, whether the other tool reports them or not.
C20_GeoMeanPerTool ==
    HasGeoTable =>
        LET table == repOut[1].geo[1]
        IN  /\ \A t \in Loaded :
                  IsGeoEntryOf(table.overall[t], ReportedValues(t, Bench))
            /\ \A c \in DOMAIN table.category : \A t \in Loaded :
                  IsGeoEntryOf(table.category[c][t],
                     ReportedValues(t, { b \in Bench :
                                           /\ Reporting(b) # {}
                                           /\ repOut[1].category[b] = c }))

\* Each tool reports two benchmarks with positive values and they share
\* only one; a category row holds one tool's two benchmarks.
C20_Witness ==
    /\ HasGeoTable
    /\ Cardinality({ b \in Bench : Cardinality(Reporting(b)) = 2 }) = 1
    /\ \A t \in Loaded : repOut[1].geo[1].overall[t].mean.count = 2
    /\ \E c \in DOMAIN repOut[1].geo[1].category : \E t \in Loaded :
          repOut[1].geo[1].category[c][t].mean.count = 2

\* The cells of the compared tool in the geometric mean table, each with
\* the two means it was made from.
GeoCells ==
    LET table == repOut[1].geo[1]
        base  == repToolNames[1]
        cmp   == repToolNames[2]
    IN  { [cell |-> table.overallCell,
           baseline |-> table.overall[base].mean,
           compare  |-> table.overall[cmp].mean] }
        \cup { [cell |-> table.categoryCell[c],
                baseline |-> table.category[c][base].mean,
                compare  |-> table.category[c][cmp].mean] :
                 c \in DOMAIN table.category }

\* C21 as stated: when the baseline's geometric mean is zero, or the
\* compared tool has no positive value (no mean), the cell of the compared
\* tool shows "N/A" with no percentage; and no cell divides by a zero mean.
C21_NotAvailableCell ==
    HasGeoTable =>
        \A g \in GeoCells :
           /\ g.cell.divisor # <<"zero">>
           /\ (g.baseline.kind = "zero" \/ g.compare.kind = "zero") =>
                 /\ g.cell.text = "N/A"
                 /\ ~g.cell.percent

\* The benchmark universe of a run: every name recorded by a loaded summary
\* (all_benchmarks, the `total` of the printed counts).
Universe == UNION { BenchmarksOf(t) : t \in Range(cecToolNames) }

Verdicts == {"equivalent", "not_equivalent", "timeout", "error", "missing"}

\* The names of one outcome group.
Group(v) == Range(cecLists[v])

\* C24: every value of the returned map is one of the five verdicts; the
\* five outcome groups are pairwise disjoint, hold no name twice, together
\* are the benchmark universe (their counts sum to its size) and agree with
\* the map; `missing` is the verdict of exactly the benchmarks that one of
\* the two compared summaries lacks or whose artifact is absent, never that
\* of a dispatched benchmark whose oracle call failed or timed out.
C24_VerdictPartition ==
    Returned =>
        /\ \A b \in DOMAIN cecStatusMap : cecStatusMap[b] \in Verdicts
        /\ DOMAIN cecLists = Verdicts
        /\ \A v, w \in Verdicts : v # w => Group(v) \cap Group(w) = {}
        /\ \A v \in Verdicts : Cardinality(Group(v)) = Len(cecLists[v])
        /\ Len(cecLists.equivalent) + Len(cecLists.not_equivalent)
             + Len(cecLists.timeout) + Len(cecLists.error)
             + Len(cecLists.missing) = Cardinality(Universe)
        /\ UNION { Group(v) : v \in Verdicts } = Universe
        /\ \A v \in Verdicts : \A b \in Group(v) : cecStatusMap[b] = v
        /\ \A b \in Universe : cecStatusMap[b] = "missing" <=> ~BothExist(b)
        /\ \A b \in Universe :
              (BothExist(b) /\ CallFails(b)) => cecStatusMap[b] \in {"error", "timeout"}

\* A returned run with a missing benchmark, a timed out call and a call
\* that failed, all in different groups.
C24_Witness ==
    /\ Returned
    /\ Group("missing") # {}
    /\ \E b \in Group("timeout") : cecOracle[b].kind = "timeout"
    /\ \E b \in Group("error") : CallFails(b)

\* The filled result slots that hold the result of b.
SlotsOf(b) ==
    { i \in DOMAIN cecResults : cecResults[i] # <<>> /\ cecResults[i][1].name = b }

\* Where a benchmark stands: PENDING until the scan or a call has dealt
\* with it, RUNNING while its oracle call is in flight, then its verdict.
BenchState(b) ==
    IF cecPc = "start" THEN "PENDING"
    ELSE IF b \in Range(cecLists.missing) THEN "missing"
    ELSE IF cecFut[b].state \in {"finished", "collected"}
    THEN cecFut[b].result[1].status
    ELSE IF cecFut[b].state = "running" THEN "RUNNING"
    ELSE IF SlotsOf(b) # {}
    THEN cecResults[CHOOSE i \in SlotsOf(b) : TRUE][1].status
    ELSE "PENDING"

\* One step of a benchmark.  With one worker the call is made and returns
\* within one step of the list comprehension, so RUNNING is passed inside it.
BenchStep(b) ==
    LET s == BenchState(b)
        t == BenchState(b)'
    IN  /\ \/ s = t
           \/ s = "PENDING" /\ t \in {"missing", "RUNNING"}
           \/ s = "RUNNING" /\ t \in RealVerdicts
           \/ /\ s = "PENDING" /\ t \in RealVerdicts
              /\ cecPc = "sequential" /\ cecCalls'[b] = cecCalls[b] + 1
        /\ s \in Verdicts => cecCalls'[b] = cecCalls[b]
        /\ cecCalls'[b] <= 1

\* run_cec has returned with every benchmark decided and every slot filled.
AllDecided ==
    /\ cecPc = "returned"
    /\ \A i \in DOMAIN cecResults : cecResults[i] # <<>>
    /\ \A b \in Universe :
          /\ BenchState(b) \in Verdicts
          /\ cecStatusMap[b] = BenchState(b)

\* C25: a benchmark moves only PENDING -> missing, or PENDING -> RUNNING ->
\* equivalent / not_equivalent / timeout / error; a verdict never changes and
\* its call is never made again; and a configured run, whose oracle calls
\* all return, raise or time out, eventually returns with no benchmark left
\* PENDING or RUNNING and every result slot filled.
C25_BenchmarkStateMachine ==
    /\ [][\A b \in Universe : BenchStep(b)]_vars
    /\ Configured => <>AllDecided

\* A returned parallel run: one benchmark was skipped as missing, one call
\* timed out and another, collected after it, gave a verdict.
C25_Witness ==
    /\ AllDecided
    /\ Configured
    /\ cecPeak >= 2
    /\ \E b \in Universe : BenchState(b) = "missing"
    /\ Len(cecArrival) >= 2
    /\ BenchState(cecArrival[1]) = "timeout"
    /\ BenchState(cecArrival[2]) \in {"equivalent", "not_equivalent"}

\* check-cec has exited
CecExited == cecMain.exit # -1

\* C22 as stated: with fewer than two tools loaded, check-cec prints a
\* diagnostic and exits with a non-zero status, and writes no results.
C22_TooFewToolsIsFatal ==
    (CecExited /\ Len(cecToolNames) < 2) =>
        /\ cecMain.diagnostic
        /\ cecMain.exit # 0
        /\ cecMain.written = <<>>

(***************************************************************************)
(* Properties of the submit / aggregate round trip (checked under          *)
(* SpecSubmit)                                                             *)
(***************************************************************************)
SubDone == subSummary # <<>>

\* The key n_w of the claim (n alone when no bit width is given).
RoundTripKey ==
    IF subIn.bitwidth.none THEN subIn.name
    ELSE subIn.name \o "_" \o ToString(subIn.bitwidth.v)

\* The directories of the test file's path that are neither `tests` nor
\* `Output`, by position.
OtherDirs ==
    { i \in 1..(Len(subIn.test_file.parts) - 1) :
         subIn.test_file.parts[i] \notin {"tests", "Output"} }

\* The nearest of them to the file, or "unknown" when there is none.
NearestCategory ==
    IF OtherDirs = {} THEN "unknown"
    ELSE subIn.test_file.parts[CHOOSE i \in OtherDirs : \A j \in OtherDirs : j <= i]

\* The metrics submitted: what the judge printed, or that text as
\* raw_output when it is no JSON.
SubmittedMetrics ==
    IF subIn.stdin.body \in RawTexts
    THEN "{\"raw_output\": \"" \o subIn.stdin.body \o "\"}"
    ELSE subIn.stdin.body

\* The entry for the record is there: the submitted metrics under key n_w,
\* extended with the category.
RoundTripEntry ==
    /\ RoundTripKey \in DOMAIN subSummary[1]
    /\ subSummary[1][RoundTripKey] =
          [metrics |-> SubmittedMetrics, category |-> NearestCategory]

\* C27 as stated: a record submitted for name n, bit width w and a test
\* file, then aggregated for the same tool, is in the summary under n_w with
\* the submitted metrics extended with the category of the test file.
C27_RoundTrip ==
    (SubDone /\ ~subIn.bitwidth.none /\ subIn.test_file.given) => RoundTripEntry

====
